---------------------------- MODULE Spec2Model ----------------------------
(***************************************************************************)
(* A model of the proof-of-work quote server (kerimovkk/pow-crypto-server). *)
(*                                                                         *)
(*   internal/pow       Hashcash challenge, hash, leading-zero bits,       *)
(*                      Verify, Solve                                      *)
(*   internal/protocol  framed messages and payload codecs                 *)
(*   internal/server    rate limiter, accept loop, connection handler      *)
(*   internal/client    the honest client (GetQuote)                       *)
(*   internal/quotes    the quote manager                                  *)
(*                                                                         *)
(* Strings and byte slices are sequences of byte values (0..255); a Go     *)
(* string is the sequence of its ASCII codes.                              *)
(***************************************************************************)
EXTENDS Integers, Sequences, FiniteSets, TLC

(***************************************************************************)
(* Bounds of the model.                                                    *)
(***************************************************************************)
\* Nonces a caller of Verify may present are 0..MaxNonce.
MaxNonce == 5
\* Solve's search range is 0..SolveRange-1 (the code: 0..2^64-2).
SolveRange == 6
\* Difficulties drawn for the pure functions are 0..MaxDifficulty, and those
\* of ExtraDifficulties.
MaxDifficulty == 4
\* The clock runs over 0..MaxTime (one tick is one second).
MaxTime == 3
\* SpecRL: concurrent callers of Allow, and Allow calls in a run.
NumCallers == 2
MaxCalls == 4
\* SpecRL: the limiter is built with maxRequests in 1..MaxMaxRequests and
\* window in 1..MaxWindow.
MaxMaxRequests == 2
MaxWindow == 2
\* Spec: connections dialled in a run, and the server's configuration
\* (Config.MaxConnections, Config.PoWDifficulty, the limiter's maxRequests
\* and window); the clock runs over 0..SrvMaxTime.
NumConns == 2
MaxConnections == 1
PoWDifficulty == 2
SrvMaxRequests == 1
SrvWindow == 1
SrvMaxTime == 1
\* Spec: the adversarial clients of a run send up to MaxAdvFrames frames
\* between them, their Solution frames carry the nonces 0..MaxAdvNonce; up
\* to MaxFailures connections of a run suffer a transport failure.
MaxAdvFrames == 2
MaxAdvNonce == 0
MaxFailures == 1

\* SpecDeadline: each of the three timeouts is in 1..MaxTimeout; the clock
\* may advance up to MaxStart before the connection is accepted.
MaxTimeout == 3
MaxStart == 1

\* SpecFrame: the client writes at most MaxFrames frames on its connection.
MaxFrames == 3

(***************************************************************************)
(* Program constants.                                                      *)
(***************************************************************************)
\* [32]byte: the size of Challenge.Data and of a SHA-256 digest.
DigestSize == 32

Byte == 0..255

(***************************************************************************)
(* Identities: textual IP addresses, as net.IP.String() gives them.        *)
(***************************************************************************)
\* "::1"
IpA == <<58, 58, 49>>
\* "::2"
IpB == <<58, 58, 50>>
\* "1.2.3.4"
IpC == <<49, 46, 50, 46, 51, 46, 52>>

(***************************************************************************)
(* internal/pow/hashcash.go                                                *)
(***************************************************************************)

\* One character of base64.StdEncoding's alphabet (A-Z a-z 0-9 + /).
B64Char(v) ==
    IF v < 26 THEN 65 + v
    ELSE IF v < 52 THEN 97 + (v - 26)
    ELSE IF v < 62 THEN 48 + (v - 52)
    ELSE IF v = 62 THEN 43 ELSE 47

\* base64.StdEncoding.EncodeToString: 3 bytes to 4 characters, '=' padding.
RECURSIVE Base64Encode(_)
Base64Encode(bs) ==
    IF Len(bs) = 0 THEN << >>
    ELSE IF Len(bs) = 1 THEN
        << B64Char(bs[1] \div 4), B64Char((bs[1] % 4) * 16), 61, 61 >>
    ELSE IF Len(bs) = 2 THEN
        << B64Char(bs[1] \div 4),
           B64Char((bs[1] % 4) * 16 + bs[2] \div 16),
           B64Char((bs[2] % 16) * 4), 61 >>
    ELSE
        << B64Char(bs[1] \div 4),
           B64Char((bs[1] % 4) * 16 + bs[2] \div 16),
           B64Char((bs[2] % 16) * 4 + bs[3] \div 64),
           B64Char(bs[3] % 64) >>
        \o Base64Encode(SubSeq(bs, 4, Len(bs)))

\* fmt's %d of an unsigned value: decimal digits, no leading zeros.
RECURSIVE DecimalU(_)
DecimalU(n) ==
    IF n < 10 THEN << 48 + n >>
    ELSE DecimalU(n \div 10) \o << 48 + (n % 10) >>

\* fmt's %d of a signed value: '-' and the digits when negative.
DecimalI(n) == IF n < 0 THEN << 45 >> \o DecimalU(0 - n) ELSE DecimalU(n)

\* Challenge.String: base64(Data) ":" Timestamp ":" ClientIP
ChallengeString(c) ==
    Base64Encode(c.Data) \o << 58 >> \o DecimalI(c.Timestamp)
        \o << 58 >> \o c.ClientIP

\* The input of the hash in ComputeHash: String() ":" nonce
HashInput(c, nonce) == ChallengeString(c) \o << 58 >> \o DecimalU(nonce)

\* sha256.Sum256, abstracted: a fixed deterministic function from byte
\* strings to DigestSize-byte digests.  The input is folded into a 16-bit
\* state, the state is scrambled once more, and its 16 bits give the two
\* leading bytes; the other bytes are spread from it.
RECURSIVE HashFold(_, _, _)
HashFold(h, bs, i) ==
    IF i > Len(bs) THEN h
    ELSE LET h2 == (h * 31 + bs[i]) % 65521
         IN  IF h2 >= 0 THEN HashFold(h2, bs, i + 1) ELSE 0

Sha256Sum(bs) ==
    LET h == (HashFold(7, bs, 1) * 25173 + 13849) % 65536
    IN  [i \in 1..DigestSize |->
            IF i = 1 THEN h \div 256
            ELSE IF i = 2 THEN h % 256
            ELSE (h + 29 * i) % 256]

\* Challenge.ComputeHash
ComputeHash(c, nonce) == Sha256Sum(HashInput(c, nonce))

\* The inner loop of CountLeadingZeroBits: i from 7 down to 0 over one
\* non-zero byte; (b & (1 << i)) == 0 counts, a set bit returns.
RECURSIVE CountByteBits(_, _, _)
CountByteBits(b, i, count) ==
    IF i < 0 THEN count
    ELSE IF (b \div (2 ^ i)) % 2 = 0 THEN CountByteBits(b, i - 1, count + 1)
    ELSE count

\* The outer loop of CountLeadingZeroBits, from byte k on.
RECURSIVE CountFrom(_, _, _)
CountFrom(hash, k, count) ==
    IF k > Len(hash) THEN count
    ELSE IF hash[k] = 0 THEN CountFrom(hash, k + 1, count + 8)
    ELSE CountByteBits(hash[k], 7, count)

\* A slip in the inner loop: the scan of a byte starts at bit 6.
CountLeadingZeroBitsLowBit(hash) ==
    LET RECURSIVE F(_, _)
        F(k, count) ==
            IF k > Len(hash) THEN count
            ELSE IF hash[k] = 0 THEN F(k + 1, count + 8)
            ELSE CountByteBits(hash[k], 6, count)
    IN  F(1, 0)

CountLeadingZeroBits(hash) == CountFrom(hash, 1, 0)

\* A slip in Verify: the identity is not compared.
VerifyNoIdentity(c, nonce, clientIP) ==
    CountLeadingZeroBits(ComputeHash(c, nonce)) >= c.Difficulty

\* pow.Verify
Verify(c, nonce, clientIP) ==
    IF c.ClientIP # clientIP THEN FALSE
    ELSE LET hash == ComputeHash(c, nonce)
             d == CountLeadingZeroBits(hash)
         IN  d >= c.Difficulty

\* The loop of Solve from `nonce` on: the first nonce of the range whose
\* hash has enough leading zero bits, or the error after the range.
RECURSIVE SolveLoop(_, _)
SolveLoop(c, nonce) ==
    IF nonce >= SolveRange THEN [nonce |-> 0, err |-> TRUE]
    ELSE IF CountLeadingZeroBits(ComputeHash(c, nonce)) >= c.Difficulty
         THEN [nonce |-> nonce, err |-> FALSE]
    ELSE SolveLoop(c, nonce + 1)

\* A slip in Solve: the search starts at 1.
SolveFromOne(c) == SolveLoop(c, 1)

\* pow.Solve
Solve(c) == SolveLoop(c, 0)

(***************************************************************************)
(* Inputs of the pure functions.                                           *)
(***************************************************************************)
\* Challenge.Data values: all zero, all 0xFF, and a mixed pattern.
RandomDatas ==
    { [i \in 1..DigestSize |-> 0],
      [i \in 1..DigestSize |-> 255],
      [i \in 1..DigestSize |-> (i * 37) % 256] }

Timestamps == { -1, 0, 7, 1700000000 }

Identities == { IpA, IpB, IpC }

\* Difficulty is an int: the values past the digest's 256 bits are drawn too.
ExtraDifficulties == { 8, 255, 256, 257 }

Difficulties == (0..MaxDifficulty) \cup ExtraDifficulties

Challenges ==
    [ Data : RandomDatas, Timestamp : Timestamps,
      ClientIP : Identities, Difficulty : Difficulties ]

\* Digests for CountLeadingZeroBits: k zero bytes, one chosen byte, then a
\* filler; the all-zero digest is among them (lead 0, fill 0).
LeadBytes == { 0, 1, 2, 3, 4, 7, 8, 15, 16, 32, 64, 127, 128, 255 }

FillBytes == { 0, 255 }

Digests ==
    { [i \in 1..DigestSize |->
          IF i <= k THEN 0 ELSE IF i = k + 1 THEN b ELSE f] :
      k \in 0..(DigestSize - 1), b \in LeadBytes, f \in FillBytes }

(***************************************************************************)
(* internal/protocol: message types, frames and payload codecs.            *)
(***************************************************************************)
MessageTypeChallengeRequest == 1
MessageTypeChallengeResponse == 2
MessageTypeSolution == 3
MessageTypeQuote == 4
MessageTypeError == 5

\* server: the error codes of sendError's callers.
ErrorCodeInvalidMessage == 1
ErrorCodeInvalidSolution == 2
ErrorCodeRateLimitExceeded == 3
ErrorCodeTimeout == 4
ErrorCodeInternalError == 5

\* ReadMessage's limit on the declared payload length: 1024*1024.
MaxPayloadLen == 1048576

\* The offset of the identity in a ChallengeResponse: 1 + 8 + 32.
ChallengeHeaderLen == 41

\* binary.BigEndian.PutUintNN of a value 0 <= n < 256^k: k bytes, high first.
RECURSIVE BigEndian(_, _)
BigEndian(n, k) ==
    IF k = 0 THEN << >>
    ELSE BigEndian(n \div 256, k - 1) \o << n % 256 >>

\* binary.BigEndian.UintNN: the value of the bytes, high first.
RECURSIVE BigEndianValue(_)
BigEndianValue(bs) ==
    IF Len(bs) = 0 THEN 0
    ELSE 256 * BigEndianValue(SubSeq(bs, 1, Len(bs) - 1)) + bs[Len(bs)]

\* PutUint64(buf, uint64(x)) of an int64: two's complement when negative.
Int64Bytes(x) ==
    IF x >= 0 THEN BigEndian(x, 8)
    ELSE LET m == BigEndian((0 - x) - 1, 8)
         IN  [i \in 1..8 |-> 255 - m[i]]

\* int64(binary.BigEndian.Uint64(bs)): negative when the top bit is set.
Int64Value(bs) ==
    IF bs[1] < 128 THEN BigEndianValue(bs)
    ELSE 0 - BigEndianValue([i \in 1..8 |-> 255 - bs[i]]) - 1

\* EncodeChallengeResponse: byte(Difficulty), Timestamp, RandomData, ClientIP.
EncodeChallengeResponse(cr) ==
    << cr.Difficulty % 256 >> \o Int64Bytes(cr.Timestamp)
        \o cr.RandomData \o cr.ClientIP

\* DecodeChallengeResponse: an error under 41 bytes.
DecodeChallengeResponse(payload) ==
    IF Len(payload) < ChallengeHeaderLen THEN [err |-> TRUE]
    ELSE [err |-> FALSE,
          Difficulty |-> payload[1],
          Timestamp |-> Int64Value(SubSeq(payload, 2, 9)),
          RandomData |-> SubSeq(payload, 10, ChallengeHeaderLen),
          ClientIP |-> SubSeq(payload, ChallengeHeaderLen + 1, Len(payload))]

\* EncodeSolution: the nonce in 8 bytes.
EncodeSolution(sol) == BigEndian(sol.Nonce, 8)

\* A slip in DecodeSolution: any payload of at least 8 bytes is taken.
DecodeSolutionLax(payload) ==
    IF Len(payload) < 8 THEN [err |-> TRUE]
    ELSE [err |-> FALSE, Nonce |-> BigEndianValue(SubSeq(payload, 1, 8))]

\* DecodeSolution: an error unless the payload has exactly 8 bytes.
DecodeSolution(payload) ==
    IF Len(payload) # 8 THEN [err |-> TRUE]
    ELSE [err |-> FALSE, Nonce |-> BigEndianValue(payload)]

\* EncodeQuote: []byte(q.Text).
EncodeQuote(q) == q.Text

\* DecodeQuote: string(payload).
DecodeQuote(payload) == [err |-> FALSE, Text |-> payload]

\* EncodeError: the code in 2 bytes, then the message.
EncodeError(e) == BigEndian(e.Code, 2) \o e.Message

\* DecodeError: an error under 2 bytes.
DecodeError(payload) ==
    IF Len(payload) < 2 THEN [err |-> TRUE]
    ELSE [err |-> FALSE,
          Code |-> BigEndianValue(SubSeq(payload, 1, 2)),
          Message |-> SubSeq(payload, 3, Len(payload))]

\* WriteMessage: the frame of a message on the wire: type, declared length
\* (uint32(len(Payload))), payload bytes.
WriteMessage(msg) ==
    [type |-> msg.Type, length |-> Len(msg.Payload), payload |-> msg.Payload]

\* ReadMessage with the limit test written >=.
ReadMessageOffByOne(frame) ==
    IF frame.length >= MaxPayloadLen THEN [err |-> TRUE, why |-> "too large"]
    ELSE IF Len(frame.payload) < frame.length
         THEN [err |-> TRUE, why |-> "short read"]
    ELSE [err |-> FALSE, Type |-> frame.type,
          Payload |-> SubSeq(frame.payload, 1, frame.length)]

\* ReadMessage of a frame whose bytes have arrived: an error when the
\* declared length is over the limit (before any payload byte is read) or
\* when the stream ends before length payload bytes (io.ReadFull).
ReadMessage(frame) ==
    IF frame.length > MaxPayloadLen THEN [err |-> TRUE, why |-> "too large"]
    ELSE IF Len(frame.payload) < frame.length
         THEN [err |-> TRUE, why |-> "short read"]
    ELSE [err |-> FALSE, Type |-> frame.type,
          Payload |-> SubSeq(frame.payload, 1, frame.length)]

(***************************************************************************)
(* Texts: the server's error messages and the quotes of the collection.    *)
(***************************************************************************)
\* "Rate limit exceeded"
MsgRateLimitExceeded ==
    << 82, 97, 116, 101, 32, 108, 105, 109, 105, 116, 32, 101, 120,
       99, 101, 101, 100, 101, 100 >>

\* "Internal error"
MsgInternalError ==
    << 73, 110, 116, 101, 114, 110, 97, 108, 32, 101, 114, 114, 111,
       114 >>

\* "Expected challenge request"
MsgExpectedChallengeRequest ==
    << 69, 120, 112, 101, 99, 116, 101, 100, 32, 99, 104, 97, 108,
       108, 101, 110, 103, 101, 32, 114, 101, 113, 117, 101, 115, 116
       >>

\* "Expected solution"
MsgExpectedSolution ==
    << 69, 120, 112, 101, 99, 116, 101, 100, 32, 115, 111, 108, 117,
       116, 105, 111, 110 >>

\* "Invalid solution"
MsgInvalidSolution ==
    << 73, 110, 118, 97, 108, 105, 100, 32, 115, 111, 108, 117, 116,
       105, 111, 110 >>

\* "No quotes available"
MsgNoQuotes ==
    << 78, 111, 32, 113, 117, 111, 116, 101, 115, 32, 97, 118, 97,
       105, 108, 97, 98, 108, 101 >>

\* "wise"
QuoteA ==
    << 119, 105, 115, 101 >>

\* "calm"
QuoteB ==
    << 99, 97, 108, 109 >>

VARIABLES
    call,         \* SpecPow: the last call of a pure function
    now,          \* the process clock (time.Now), monotonic
    requests,     \* RateLimiter.requests: identity -> timestamps
    maxRequests,  \* RateLimiter.maxRequests
    window,       \* RateLimiter.window
    mu,           \* RateLimiter.mu: 0 when free, else its holder
    caller,       \* SpecRL: each caller's position in Allow and its locals
    hist,         \* history: the Allow calls that returned, in lock order
    activeConns,  \* Server.activeConns
    shutdown,     \* Server.shutdownChan is closed
    listener,     \* Server.listener: "open" or "closed"
    acc,          \* acceptLoop: its position and the connection it holds
    backlog,      \* connections dialled and not yet accepted
    cst,          \* per connection: its state / its handler's position
    cip,          \* per connection: the remote address (the identity)
    chal,         \* per handler: the challenge it generated
    inq,          \* per connection: client frames not yet read
    log,          \* per connection: the handler's reads and writes, in order
    failed,       \* per connection: a transport failure or deadline expiry
    admitted,     \* per handler: what Allow returned to it
    cli,          \* per connection: the client
    quotes,       \* quotes.Manager.quotes
    config,       \* Server.config: the three timeouts
    hnd,          \* SpecDeadline: a handler's position and its conn's deadlines
    cleanupStop,  \* RateLimiter.cleanupStop is closed (Stop has returned)
    cleanupLoop   \* cleanupLoop's goroutine: "running" or "returned"

rlVars == << now, requests, maxRequests, window, mu, caller, hist >>

srvVars ==
    << activeConns, shutdown, listener, acc, backlog, cst, cip, chal, inq,
       log, failed, admitted, cli, quotes >>

\* The handler's deadlines.
dlVars == << config, hnd >>

\* The cleanup goroutine's lifecycle.
loopVars == << cleanupStop, cleanupLoop >>

auxVars == << dlVars, loopVars >>

\* What the rate limiter's own steps leave alone.
notRL == << call, auxVars, srvVars >>

\* What the calls of the pure functions leave alone.
notPow == << rlVars, auxVars, srvVars >>

vars == << call, rlVars, auxVars, srvVars >>

(***************************************************************************)
(* internal/server: the sliding-window rate limiter (RateLimiter).         *)
(***************************************************************************)
Callers == 1..NumCallers

Conns == 1..NumConns

NoChallenge == [none |-> TRUE]

NoClient ==
    [kind |-> "none", pc |-> "none", nread |-> 0, sent |-> 0,
     result |-> "none", text |-> << >>]

\* NewServer, Start: no connection yet, the gauge at 0, the accept loop at
\* its first select, the listener open.
SrvIdle ==
    /\ activeConns = 0
    /\ shutdown = FALSE
    /\ listener = "open"
    /\ acc = [pc |-> "select", conn |-> 0]
    /\ backlog = << >>
    /\ cst = [c \in Conns |-> "none"]
    /\ cip = [c \in Conns |-> << >>]
    /\ chal = [c \in Conns |-> NoChallenge]
    /\ inq = [c \in Conns |-> << >>]
    /\ log = [c \in Conns |-> << >>]
    /\ failed = [c \in Conns |-> FALSE]
    /\ admitted = [c \in Conns |-> "none"]
    /\ cli = [c \in Conns |-> NoClient]

\* The handler of SpecDeadline before its connection is accepted.
NoHandler == [pc |-> "none", entry |-> 0, readDeadline |-> 0,
              writeDeadline |-> 0, verified |-> -1]

\* NewRateLimiter has started cleanupLoop; no handler's deadlines are
\* followed.
AuxIdle ==
    /\ config = [ReadTimeout |-> 1, WriteTimeout |-> 1,
                 ConnectionTimeout |-> 1, PoWChallengeMaxAge |-> 1]
    /\ hnd = NoHandler
    /\ cleanupStop = FALSE
    /\ cleanupLoop = "running"

\* The holder of mu while the cleanup goroutine runs cleanup.
CleanupHolder == NumCallers + 1

RLIdentities == { IpA, IpB }

\* rl.requests[ip]: the nil slice for an identity that is not in the map.
Timestamps0(reqs, ip) == IF ip \in DOMAIN reqs THEN reqs[ip] ELSE << >>

\* A slip in the filter: a timestamp of age exactly window is dropped.
ValidStrict(timestamps, t, w) ==
    SelectSeq(timestamps, LAMBDA x : t - x < w)

\* The filter loop of Allow and of cleanup: the timestamps with
\* now.Sub(t) <= rl.window, in order.
Valid(timestamps, t, w) ==
    SelectSeq(timestamps, LAMBDA x : t - x <= w)

\* A slip in the admission test: len(valid) > rl.maxRequests denies.
AdmitsOffByOne(valid, maxReq) == ~(Len(valid) > maxReq)

\* The admission test of Allow: len(valid) >= rl.maxRequests denies.
Admits(valid, maxReq) == ~(Len(valid) >= maxReq)

\* An Allow that puts the time of the call in front of the list.
AllowStoreInFront(reqs, ip, timestamps, t, w, maxReq) ==
    LET valid == Valid(timestamps, t, w)
    IN  IF Admits(valid, maxReq)
        THEN [k \in DOMAIN reqs \cup {ip} |->
                 IF k = ip THEN << t >> \o valid ELSE reqs[k]]
        ELSE reqs

\* An Allow that records the time of a denied call too.
AllowStoreDenied(reqs, ip, timestamps, t, w, maxReq) ==
    LET valid == Valid(timestamps, t, w)
    IN  [k \in DOMAIN reqs \cup {ip} |->
            IF k = ip THEN Append(valid, t) ELSE reqs[k]]

\* An Allow that, on admission, stores the list under every identity of
\* the map.
AllowStoreEvery(reqs, ip, timestamps, t, w, maxReq) ==
    LET valid == Valid(timestamps, t, w)
    IN  IF Admits(valid, maxReq)
        THEN [k \in DOMAIN reqs \cup {ip} |-> Append(valid, t)]
        ELSE reqs

\* The map after Allow(ip) at time t, from the timestamps Allow read:
\* unchanged on denial, else valid with t appended stored under ip.
AllowStore(reqs, ip, timestamps, t, w, maxReq) ==
    LET valid == Valid(timestamps, t, w)
    IN  IF Admits(valid, maxReq)
        THEN [k \in DOMAIN reqs \cup {ip} |->
                 IF k = ip THEN Append(valid, t) ELSE reqs[k]]
        ELSE reqs

\* A cleanup that filters every list and deletes no identity.
CleanupStoreNoDelete(reqs, t, w) ==
    [k \in DOMAIN reqs |-> Valid(reqs[k], t, w)]

\* A cleanup that empties the map.
CleanupStoreAll(reqs, t, w) == << >>

\* The map after cleanup at time t: every list filtered, the identities
\* whose list is empty deleted.
CleanupStore(reqs, t, w) ==
    LET keep == { k \in DOMAIN reqs : Len(Valid(reqs[k], t, w)) # 0 }
    IN  [k \in keep |-> Valid(reqs[k], t, w)]

\* A slip: Allow and cleanup do not wait for the lock.
MuNotTaken(p) == TRUE

\* rl.mu.Lock() can return for p: the mutex is free.
MuFree(p) == mu = 0

IdleCaller == [pc |-> "idle"]

\* The clock advances.
Tick ==
    /\ now < MaxTime
    /\ now' = now + 1
    /\ UNCHANGED << requests, maxRequests, window, mu, caller, hist >>
    /\ UNCHANGED notRL

\* Allow, up to the read of the identity's list: Lock, now := time.Now(),
\* timestamps := rl.requests[ip].
AllowEnter(p) ==
    /\ caller[p].pc = "idle"
    /\ Len(hist) + Cardinality({ q \in Callers : caller[q].pc = "in" })
           < MaxCalls
    /\ MuFree(p)
    /\ \E ip \in RLIdentities :
           caller' = [caller EXCEPT ![p] =
                         [pc |-> "in", ip |-> ip, now |-> now,
                          timestamps |-> Timestamps0(requests, ip)]]
    /\ mu' = p
    /\ UNCHANGED << now, requests, maxRequests, window, hist >>
    /\ UNCHANGED notRL

\* Allow, from the filter loop to the return: the store on admission, the
\* deferred Unlock, the result.
AllowReturn(p) ==
    /\ caller[p].pc = "in"
    /\ LET c == caller[p]
           valid == Valid(c.timestamps, c.now, window)
       IN  /\ requests' = AllowStore(requests, c.ip, c.timestamps, c.now,
                                     window, maxRequests)
           /\ hist' = Append(hist, [ip |-> c.ip, t |-> c.now,
                                    ret |-> Admits(valid, maxRequests)])
    /\ caller' = [caller EXCEPT ![p] = IdleCaller]
    /\ mu' = 0
    /\ UNCHANGED << now, maxRequests, window >>
    /\ UNCHANGED notRL

\* cleanupLoop's ticker case, up to the Lock of cleanup.  The loop is at its
\* select; the stopped ticker delivers no tick.
CleanupEnter ==
    /\ cleanupLoop = "running"
    /\ ~cleanupStop
    /\ mu # CleanupHolder
    /\ MuFree(CleanupHolder)
    /\ mu' = CleanupHolder
    /\ UNCHANGED << now, requests, maxRequests, window, caller, hist >>
    /\ UNCHANGED notRL

\* cleanup under the lock: now := time.Now(), the scan, the deferred Unlock.
CleanupRun ==
    /\ mu = CleanupHolder
    /\ requests' = CleanupStore(requests, now, window)
    /\ mu' = 0
    /\ UNCHANGED << now, maxRequests, window, caller, hist >>
    /\ UNCHANGED notRL

\* RateLimiter.Stop: cleanupTicker.Stop(), close(cleanupStop), return.
RateLimiterStop ==
    /\ ~cleanupStop
    /\ cleanupStop' = TRUE
    /\ UNCHANGED << now, requests, maxRequests, window, mu, caller, hist >>
    /\ UNCHANGED << call, dlVars, cleanupLoop, srvVars >>

\* cleanupLoop's case <-rl.cleanupStop: the loop, at its select, returns.
CleanupLoopReturn ==
    /\ cleanupLoop = "running"
    /\ cleanupStop
    /\ mu # CleanupHolder
    /\ cleanupLoop' = "returned"
    /\ UNCHANGED << now, requests, maxRequests, window, mu, caller, hist >>
    /\ UNCHANGED << call, dlVars, cleanupStop, srvVars >>

\* NewRateLimiter: an empty map, the configured limit and window.
RLInit ==
    /\ call = [op |-> "none"]
    /\ now = 0
    /\ requests = << >>
    /\ maxRequests \in 1..MaxMaxRequests
    /\ window \in 1..MaxWindow
    /\ mu = 0
    /\ caller = [p \in Callers |-> IdleCaller]
    /\ hist = << >>
    /\ SrvIdle
    /\ AuxIdle
    /\ quotes = << >>

RLNext ==
    \/ Tick
    \/ \E p \in Callers : AllowEnter(p)
    \/ \E p \in Callers : AllowReturn(p)
    \/ CleanupEnter
    \/ CleanupRun
    \/ RateLimiterStop
    \/ CleanupLoopReturn

SpecRL == RLInit /\ [][RLNext]_vars

(***************************************************************************)
(* SpecPow: the pure functions of internal/pow applied to drawn inputs.    *)
(* `call` records the last call: its operation, arguments and result.      *)
(***************************************************************************)
NoCall == [op |-> "none"]

PowInit ==
    /\ call = NoCall
    /\ now = 0
    /\ requests = << >>
    /\ maxRequests = 1
    /\ window = 1
    /\ mu = 0
    /\ caller = [p \in Callers |-> IdleCaller]
    /\ hist = << >>
    /\ SrvIdle
    /\ AuxIdle
    /\ quotes = << >>

CallCountLeadingZeroBits ==
    /\ call = NoCall
    /\ \E d \in Digests :
        call' = [op |-> "CountLeadingZeroBits", hash |-> d,
                 ret |-> CountLeadingZeroBits(d)]
    /\ UNCHANGED notPow

CallVerify ==
    /\ call = NoCall
    /\ \E c \in Challenges, n \in 0..MaxNonce, ip \in Identities :
        call' = [op |-> "Verify", c |-> c, nonce |-> n, clientIP |-> ip,
                 ret |-> Verify(c, n, ip)]
    /\ UNCHANGED notPow

CallSolve ==
    /\ call = NoCall
    /\ \E c \in Challenges :
        call' = [op |-> "Solve", c |-> c, ret |-> Solve(c)]
    /\ UNCHANGED notPow

PowNext ==
    \/ CallCountLeadingZeroBits
    \/ CallVerify
    \/ CallSolve

SpecPow == PowInit /\ [][PowNext]_vars

(***************************************************************************)
(* SpecCodec: the payload codecs of internal/protocol applied to drawn     *)
(* messages.  `call` records the message, its encoding and the decoding    *)
(* of that encoding.                                                       *)
(***************************************************************************)
\* Difficulty is an int: negative values are drawn too.
CodecDifficulties == Difficulties \cup { -1 }

\* ClientIP, Text and Message are strings: the empty one is drawn too.
ChallengeResponses ==
    [ Difficulty : CodecDifficulties, Timestamp : Timestamps,
      RandomData : RandomDatas, ClientIP : Identities \cup { << >> } ]

\* Nonce is a uint64; the values drawn stay within the integers of the
\* model checker.
Solutions == [ Nonce : { 0, 1, 255, 256, 65536, 2147483647 } ]

Quotes == [ Text : { << >>, QuoteA, QuoteB } ]

\* Code is a uint16.
Errors ==
    [ Code : { 0, 1, 2, 3, 4, 5, 256, 65535 },
      Message : { << >>, MsgInvalidSolution, MsgNoQuotes } ]

CallChallengeResponse ==
    /\ call = NoCall
    /\ \E m \in ChallengeResponses :
        call' = [op |-> "ChallengeResponse", msg |-> m,
                 payload |-> EncodeChallengeResponse(m),
                 ret |-> DecodeChallengeResponse(EncodeChallengeResponse(m))]
    /\ UNCHANGED notPow

CallSolution ==
    /\ call = NoCall
    /\ \E m \in Solutions :
        call' = [op |-> "Solution", msg |-> m, payload |-> EncodeSolution(m),
                 ret |-> DecodeSolution(EncodeSolution(m))]
    /\ UNCHANGED notPow

CallQuote ==
    /\ call = NoCall
    /\ \E m \in Quotes :
        call' = [op |-> "Quote", msg |-> m, payload |-> EncodeQuote(m),
                 ret |-> DecodeQuote(EncodeQuote(m))]
    /\ UNCHANGED notPow

CallError ==
    /\ call = NoCall
    /\ \E m \in Errors :
        call' = [op |-> "Error", msg |-> m, payload |-> EncodeError(m),
                 ret |-> DecodeError(EncodeError(m))]
    /\ UNCHANGED notPow

\* One exchange of a challenge and its solution through the codec, for a
\* server configured with PoWDifficulty d: GenerateChallenge(clientIP, d),
\* the ChallengeResponse built from it, encoded and decoded; the client's
\* Challenge built from the decoded fields, Solve, the Solution encoded
\* and decoded; pow.Verify against the server's challenge.
CallExchange ==
    /\ call = NoCall
    /\ \E d \in Difficulties, ts \in Timestamps, data \in RandomDatas,
          ip \in Identities :
        LET challenge == [Data |-> data, Timestamp |-> ts, ClientIP |-> ip,
                          Difficulty |-> d]
            resp == DecodeChallengeResponse(
                        EncodeChallengeResponse(
                            [Difficulty |-> challenge.Difficulty,
                             Timestamp |-> challenge.Timestamp,
                             RandomData |-> challenge.Data,
                             ClientIP |-> ip]))
            decoded == [Data |-> resp.RandomData,
                        Timestamp |-> resp.Timestamp,
                        ClientIP |-> resp.ClientIP,
                        Difficulty |-> resp.Difficulty]
            solved == Solve(decoded)
            solution == DecodeSolution(
                            EncodeSolution([Nonce |-> solved.nonce]))
        IN  call' = [op |-> "Exchange", challenge |-> challenge,
                     decoded |-> decoded, solved |-> ~solved.err,
                     nonce |-> solved.nonce,
                     accepted |-> /\ ~solved.err
                                  /\ Verify(challenge, solution.Nonce, ip)]
    /\ UNCHANGED notPow

CodecNext ==
    \/ CallChallengeResponse
    \/ CallSolution
    \/ CallQuote
    \/ CallError
    \/ CallExchange

SpecCodec == PowInit /\ [][CodecNext]_vars

(***************************************************************************)
(* internal/server: the accept loop, Stop and the connection handler;      *)
(* internal/client: GetQuote; an adversarial client.                       *)
(***************************************************************************)
SrvIdentities == { IpA, IpB }

\* The identities connection c may come from: the first comes from IpA (the
\* identities are interchangeable), the later ones from any.
DialIdentities(c) == IF c = 1 THEN { IpA } ELSE SrvIdentities

\* The random data GenerateChallenge may draw.
SrvRandomDatas == { [i \in 1..DigestSize |-> (i * 37) % 256] }

ReadEv(msg) == [ev |-> "read", msg |-> msg]

ReadErrEv(why) == [ev |-> "readerr", why |-> why]

WriteEv(msg) == [ev |-> "write", msg |-> msg]

\* The message sendError builds: type Error, payload EncodeError(code, text).
ErrorMessage(code, text) ==
    [Type |-> MessageTypeError,
     Payload |-> EncodeError([Code |-> code, Message |-> text])]

\* ChallengeResponseOf with another timestamp than the challenge's.
ChallengeResponseOfLater(ch, clientIP) ==
    [Difficulty |-> ch.Difficulty, Timestamp |-> ch.Timestamp + 1,
     RandomData |-> ch.Data, ClientIP |-> clientIP]

\* The ChallengeResponse the handler builds from its challenge.
ChallengeResponseOf(ch, clientIP) ==
    [Difficulty |-> ch.Difficulty, Timestamp |-> ch.Timestamp,
     RandomData |-> ch.Data, ClientIP |-> clientIP]

ChallengeResponseMessage(ch, clientIP) ==
    [Type |-> MessageTypeChallengeResponse,
     Payload |-> EncodeChallengeResponse(ChallengeResponseOf(ch, clientIP))]

QuoteMessage(text) ==
    [Type |-> MessageTypeQuote, Payload |-> EncodeQuote([Text |-> text])]

\* The handler's test of the first message's type.
IsChallengeRequest(msg) == msg.Type = MessageTypeChallengeRequest

\* IsSolution letting the type bytes above the known ones through.
IsSolutionOrUnknown(msg) ==
    msg.Type = MessageTypeSolution \/ msg.Type > MessageTypeError

\* The handler's test of the second message's type.
IsSolution(msg) == msg.Type = MessageTypeSolution

\* SolutionVerified without the call of pow.Verify.
SolutionUnverified(ch, sol, clientIP) == TRUE

\* The handler's test of the solution: pow.Verify(challenge, Nonce, clientIP).
SolutionVerified(ch, sol, clientIP) == Verify(ch, sol.Nonce, clientIP)

\* The log after a write of msg by the handler of c: the message when the
\* write succeeds, nothing when it fails.
Written(c, l, msg, ok) == IF ok THEN Append(l, WriteEv(msg)) ELSE l

\* The frames the server has written on c, as the client receives them.
ServerFrames(c) ==
    LET w == SelectSeq(log[c], LAMBDA e : e.ev = "write")
    IN  [i \in 1..Len(w) |-> WriteMessage(w[i].msg)]

\* The frames an adversarial client may send.
AdvFrames ==
    { WriteMessage([Type |-> MessageTypeChallengeRequest, Payload |-> << 0 >>]),
      WriteMessage([Type |-> MessageTypeSolution,
                    Payload |-> << 0, 0, 0, 0, 0, 0, 0 >>]),
      WriteMessage([Type |-> 9, Payload |-> << >>]),
      [type |-> MessageTypeQuote, length |-> 1073741824, payload |-> << >>] }
    \cup { WriteMessage([Type |-> MessageTypeSolution,
                         Payload |-> EncodeSolution([Nonce |-> n])]) :
           n \in 0..MaxAdvNonce }

\* The connections of the run on which the transport has failed.
FailureCount == Cardinality({ c \in Conns : failed[c] })

\* The outcomes of a write of the handler: success, or (within the run's
\* budget of failures) a transport error.
WriteOutcomes == IF FailureCount < MaxFailures THEN BOOLEAN ELSE { TRUE }

RECURSIVE FramesSent(_)
\* The frames the adversarial clients 1..k have sent.
FramesSent(k) ==
    IF k = 0 THEN 0
    ELSE FramesSent(k - 1)
         + (IF cli[k].kind = "adversary" THEN cli[k].sent ELSE 0)

\* The clock advances.
SrvTick ==
    /\ now < SrvMaxTime
    /\ now' = now + 1
    /\ UNCHANGED auxVars
    /\ UNCHANGED << call, requests, maxRequests, window, mu, caller, hist,
                    srvVars >>

\* A client of this kind connects: the connection waits in the listener's
\* backlog.
DialAs(c, kind) ==
    /\ cst[c] = "none"
    /\ IF c = 1 THEN TRUE ELSE cst[c - 1] # "none"
    /\ listener = "open"
    /\ \E ip \in DialIdentities(c) :
           /\ cip' = [cip EXCEPT ![c] = ip]
           /\ cli' = [cli EXCEPT ![c] =
                         [kind |-> kind, pc |-> "start", nread |-> 0,
                          sent |-> 0, result |-> "none", text |-> << >>]]
    /\ cst' = [cst EXCEPT ![c] = "pending"]
    /\ backlog' = Append(backlog, c)
    /\ UNCHANGED auxVars
    /\ UNCHANGED << call, rlVars, activeConns, shutdown, listener, acc, chal,
                    inq, log, failed, admitted, quotes >>

\* A client connects, honest or adversarial.
Dial(c) == \E kind \in {"honest", "adversary"} : DialAs(c, kind)

\* A client that runs GetQuote connects.
DialHonest(c) == DialAs(c, "honest")

\* acceptLoop, the first select: shutdownChan is closed, return.
AcceptSelectShutdown ==
    /\ acc.pc = "select"
    /\ shutdown
    /\ acc' = [pc |-> "done", conn |-> 0]
    /\ UNCHANGED auxVars
    /\ UNCHANGED << call, rlVars, activeConns, shutdown, listener, backlog,
                    cst, cip, chal, inq, log, failed, admitted, cli, quotes >>

\* acceptLoop, the first select: the default case, go on to Accept.
AcceptSelectDefault ==
    /\ acc.pc = "select"
    /\ ~shutdown
    /\ acc' = [pc |-> "accept", conn |-> 0]
    /\ UNCHANGED auxVars
    /\ UNCHANGED << call, rlVars, activeConns, shutdown, listener, backlog,
                    cst, cip, chal, inq, log, failed, admitted, cli, quotes >>

\* listener.Accept returns a connection.
AcceptConn ==
    /\ acc.pc = "accept"
    /\ listener = "open"
    /\ backlog # << >>
    /\ acc' = [pc |-> "check", conn |-> Head(backlog)]
    /\ backlog' = Tail(backlog)
    /\ cst' = [cst EXCEPT ![Head(backlog)] = "accepted"]
    /\ UNCHANGED auxVars
    /\ UNCHANGED << call, rlVars, activeConns, shutdown, listener, cip, chal,
                    inq, log, failed, admitted, cli, quotes >>

\* listener.Accept returns an error (always once the listener is closed)
\* and shutdownChan is closed: return.
AcceptErrorShutdown ==
    /\ acc.pc = "accept"
    /\ shutdown
    /\ acc' = [pc |-> "done", conn |-> 0]
    /\ UNCHANGED auxVars
    /\ UNCHANGED << call, rlVars, activeConns, shutdown, listener, backlog,
                    cst, cip, chal, inq, log, failed, admitted, cli, quotes >>

\* AcceptErrorContinue that returns from the loop instead.
AcceptErrorReturns ==
    /\ acc.pc = "accept"
    /\ ~shutdown
    /\ acc' = [pc |-> "done", conn |-> 0]
    /\ UNCHANGED auxVars
    /\ UNCHANGED << call, rlVars, activeConns, shutdown, listener, backlog,
                    cst, cip, chal, inq, log, failed, admitted, cli, quotes >>

\* listener.Accept returns an error and shutdownChan is open: log, continue.
AcceptErrorContinue ==
    /\ acc.pc = "accept"
    /\ ~shutdown
    /\ acc' = [pc |-> "select", conn |-> 0]
    /\ UNCHANGED auxVars
    /\ UNCHANGED << call, rlVars, activeConns, shutdown, listener, backlog,
                    cst, cip, chal, inq, log, failed, admitted, cli, quotes >>

\* current := activeConns.Load(); at the cap: conn.Close(), continue.
AcceptReject ==
    /\ acc.pc = "check"
    /\ activeConns >= MaxConnections
    /\ cst' = [cst EXCEPT ![acc.conn] = "refused"]
    /\ acc' = [pc |-> "select", conn |-> 0]
    /\ UNCHANGED auxVars
    /\ UNCHANGED << call, rlVars, activeConns, shutdown, listener, backlog,
                    cip, chal, inq, log, failed, admitted, cli, quotes >>

\* AcceptLoad without the comparison with MaxConnections.
AcceptLoadUncapped ==
    /\ acc.pc = "check"
    /\ acc' = [acc EXCEPT !.pc = "spawn"]
    /\ UNCHANGED auxVars
    /\ UNCHANGED << call, rlVars, activeConns, shutdown, listener, backlog,
                    cst, cip, chal, inq, log, failed, admitted, cli, quotes >>

\* current := activeConns.Load(); under the cap.
AcceptLoad ==
    /\ acc.pc = "check"
    /\ activeConns < MaxConnections
    /\ acc' = [acc EXCEPT !.pc = "spawn"]
    /\ UNCHANGED auxVars
    /\ UNCHANGED << call, rlVars, activeConns, shutdown, listener, backlog,
                    cst, cip, chal, inq, log, failed, admitted, cli, quotes >>

\* activeConns.Add(1); go handleConnection(conn).
AcceptSpawn ==
    /\ acc.pc = "spawn"
    /\ activeConns' = activeConns + 1
    /\ cst' = [cst EXCEPT ![acc.conn] = "admit"]
    /\ acc' = [pc |-> "select", conn |-> 0]
    /\ UNCHANGED auxVars
    /\ UNCHANGED << call, rlVars, shutdown, listener, backlog, cip, chal,
                    inq, log, failed, admitted, cli, quotes >>

\* Stop closing the connections of the handlers in flight as well.
StopCancelsHandlers ==
    /\ ~shutdown
    /\ shutdown' = TRUE
    /\ listener' = "closed"
    /\ cst' = [c \in Conns |->
                  IF cst[c] \in {"admit", "readReq", "readSol"}
                  THEN "exit" ELSE cst[c]]
    /\ UNCHANGED auxVars
    /\ UNCHANGED << call, rlVars, activeConns, acc, backlog, cip, chal,
                    inq, log, failed, admitted, cli, quotes >>

\* Stop: close(shutdownChan), listener.Close().
Stop ==
    /\ ~shutdown
    /\ shutdown' = TRUE
    /\ listener' = "closed"
    /\ UNCHANGED auxVars
    /\ UNCHANGED << call, rlVars, activeConns, acc, backlog, cst, cip, chal,
                    inq, log, failed, admitted, cli, quotes >>

\* What rateLimiter.Allow(clientIP) returns to the handler of c now.
AllowsNow(c) ==
    Admits(Valid(Timestamps0(requests, cip[c]), now, window), maxRequests)

\* The effect of rateLimiter.Allow(clientIP) in the handler of c (one step:
\* Allow runs under rl.mu).
AllowCalled(c) ==
    /\ MuFree(c)
    /\ requests' = AllowStore(requests, cip[c],
                              Timestamps0(requests, cip[c]), now, window,
                              maxRequests)
    /\ hist' = Append(hist, [ip |-> cip[c], t |-> now, ret |-> AllowsNow(c)])
    /\ admitted' = [admitted EXCEPT ![c] =
                       IF AllowsNow(c) THEN "allowed" ELSE "denied"]
    /\ UNCHANGED << now, maxRequests, window, mu, caller >>

\* HandlerRateLimited without the sendError.
HandlerRateLimitedSilent(c) ==
    /\ cst[c] = "admit"
    /\ ~AllowsNow(c)
    /\ AllowCalled(c)
    /\ cst' = [cst EXCEPT ![c] = "exit"]
    /\ UNCHANGED auxVars
    /\ UNCHANGED << call, activeConns, shutdown, listener, acc, backlog, cip,
                    chal, inq, log, failed, cli, quotes >>

\* handleConnection: Allow denies; sendError(RateLimitExceeded), return.
HandlerRateLimited(c) ==
    /\ cst[c] = "admit"
    /\ ~AllowsNow(c)
    /\ AllowCalled(c)
    /\ \E ok \in WriteOutcomes :
           /\ log' = [log EXCEPT ![c] =
                         Written(c, @, ErrorMessage(ErrorCodeRateLimitExceeded,
                                                    MsgRateLimitExceeded), ok)]
           /\ failed' = [failed EXCEPT ![c] = @ \/ ~ok]
    /\ cst' = [cst EXCEPT ![c] = "exit"]
    /\ UNCHANGED auxVars
    /\ UNCHANGED << call, activeConns, shutdown, listener, acc, backlog, cip,
                    chal, inq, cli, quotes >>

\* handleConnection: Allow admits, GenerateChallenge fails (rand.Read);
\* sendError(InternalError), return.
HandlerRandFail(c) ==
    /\ cst[c] = "admit"
    /\ AllowsNow(c)
    /\ AllowCalled(c)
    /\ \E ok \in WriteOutcomes :
           /\ log' = [log EXCEPT ![c] =
                         Written(c, @, ErrorMessage(ErrorCodeInternalError,
                                                    MsgInternalError), ok)]
           /\ failed' = [failed EXCEPT ![c] = @ \/ ~ok]
    /\ cst' = [cst EXCEPT ![c] = "exit"]
    /\ UNCHANGED auxVars
    /\ UNCHANGED << call, activeConns, shutdown, listener, acc, backlog, cip,
                    chal, inq, cli, quotes >>

\* handleConnection: Allow admits, GenerateChallenge succeeds; the handler
\* enters handleChallengeResponse and waits for the first message.
HandlerChallenge(c) ==
    /\ cst[c] = "admit"
    /\ AllowsNow(c)
    /\ AllowCalled(c)
    /\ \E data \in SrvRandomDatas :
           chal' = [chal EXCEPT ![c] =
                       [Data |-> data, Timestamp |-> now,
                        ClientIP |-> cip[c], Difficulty |-> PoWDifficulty]]
    /\ cst' = [cst EXCEPT ![c] = "readReq"]
    /\ UNCHANGED auxVars
    /\ UNCHANGED << call, activeConns, shutdown, listener, acc, backlog, cip,
                    inq, log, failed, cli, quotes >>

\* A read of the handler fails: deadline expired, connection reset or
\* closed by the peer.  The handler returns without sending a frame.
IOFail(c) ==
    /\ cst[c] \in {"readReq", "readSol"}
    /\ FailureCount < MaxFailures
    /\ failed' = [failed EXCEPT ![c] = TRUE]
    /\ cst' = [cst EXCEPT ![c] = "exit"]
    /\ UNCHANGED auxVars
    /\ UNCHANGED << call, rlVars, activeConns, shutdown, listener, acc,
                    backlog, cip, chal, inq, log, admitted, cli, quotes >>

\* handleChallengeResponse, first read: ReadMessage returns an error (the
\* declared length is over the limit); return.
ReadRequestError(c) ==
    /\ cst[c] = "readReq"
    /\ inq[c] # << >>
    /\ ReadMessage(Head(inq[c])).err
    /\ log' = [log EXCEPT ![c] =
                  Append(@, ReadErrEv(ReadMessage(Head(inq[c])).why))]
    /\ inq' = [inq EXCEPT ![c] = Tail(@)]
    /\ cst' = [cst EXCEPT ![c] = "exit"]
    /\ UNCHANGED auxVars
    /\ UNCHANGED << call, rlVars, activeConns, shutdown, listener, acc,
                    backlog, cip, chal, failed, admitted, cli, quotes >>

\* First read: the message is not a ChallengeRequest;
\* sendError(InvalidMessage, "Expected challenge request"), return.
ReadRequestWrongType(c) ==
    /\ cst[c] = "readReq"
    /\ inq[c] # << >>
    /\ ~ReadMessage(Head(inq[c])).err
    /\ LET msg == [Type |-> ReadMessage(Head(inq[c])).Type,
                   Payload |-> ReadMessage(Head(inq[c])).Payload]
       IN  /\ ~IsChallengeRequest(msg)
           /\ \E ok \in WriteOutcomes :
                  /\ log' = [log EXCEPT ![c] =
                                Written(c, Append(@, ReadEv(msg)),
                                        ErrorMessage(ErrorCodeInvalidMessage,
                                            MsgExpectedChallengeRequest), ok)]
                  /\ failed' = [failed EXCEPT ![c] = @ \/ ~ok]
    /\ inq' = [inq EXCEPT ![c] = Tail(@)]
    /\ cst' = [cst EXCEPT ![c] = "exit"]
    /\ UNCHANGED auxVars
    /\ UNCHANGED << call, rlVars, activeConns, shutdown, listener, acc,
                    backlog, cip, chal, admitted, cli, quotes >>

\* First read: a ChallengeRequest; the ChallengeResponse is encoded and
\* written (return when the write fails), the handler waits for the second
\* message.
ReadRequestOk(c) ==
    /\ cst[c] = "readReq"
    /\ inq[c] # << >>
    /\ ~ReadMessage(Head(inq[c])).err
    /\ LET msg == [Type |-> ReadMessage(Head(inq[c])).Type,
                   Payload |-> ReadMessage(Head(inq[c])).Payload]
       IN  /\ IsChallengeRequest(msg)
           /\ \E ok \in WriteOutcomes :
                  /\ log' = [log EXCEPT ![c] =
                                Written(c, Append(@, ReadEv(msg)),
                                        ChallengeResponseMessage(chal[c],
                                                                 cip[c]), ok)]
                  /\ failed' = [failed EXCEPT ![c] = @ \/ ~ok]
                  /\ cst' = [cst EXCEPT ![c] =
                                IF ok THEN "readSol" ELSE "exit"]
    /\ inq' = [inq EXCEPT ![c] = Tail(@)]
    /\ UNCHANGED auxVars
    /\ UNCHANGED << call, rlVars, activeConns, shutdown, listener, acc,
                    backlog, cip, chal, admitted, cli, quotes >>

\* The second message as the handler's ReadMessage returns it.
SecondMessage(c) ==
    [Type |-> ReadMessage(Head(inq[c])).Type,
     Payload |-> ReadMessage(Head(inq[c])).Payload]

\* Second read: ReadMessage returns an error; return.
ReadSolutionError(c) ==
    /\ cst[c] = "readSol"
    /\ inq[c] # << >>
    /\ ReadMessage(Head(inq[c])).err
    /\ log' = [log EXCEPT ![c] =
                  Append(@, ReadErrEv(ReadMessage(Head(inq[c])).why))]
    /\ inq' = [inq EXCEPT ![c] = Tail(@)]
    /\ cst' = [cst EXCEPT ![c] = "exit"]
    /\ UNCHANGED auxVars
    /\ UNCHANGED << call, rlVars, activeConns, shutdown, listener, acc,
                    backlog, cip, chal, failed, admitted, cli, quotes >>

\* Second read: the message is not a Solution;
\* sendError(InvalidMessage, "Expected solution"), return.
ReadSolutionWrongType(c) ==
    /\ cst[c] = "readSol"
    /\ inq[c] # << >>
    /\ ~ReadMessage(Head(inq[c])).err
    /\ ~IsSolution(SecondMessage(c))
    /\ \E ok \in WriteOutcomes :
           /\ log' = [log EXCEPT ![c] =
                         Written(c, Append(@, ReadEv(SecondMessage(c))),
                                 ErrorMessage(ErrorCodeInvalidMessage,
                                              MsgExpectedSolution), ok)]
           /\ failed' = [failed EXCEPT ![c] = @ \/ ~ok]
    /\ inq' = [inq EXCEPT ![c] = Tail(@)]
    /\ cst' = [cst EXCEPT ![c] = "exit"]
    /\ UNCHANGED auxVars
    /\ UNCHANGED << call, rlVars, activeConns, shutdown, listener, acc,
                    backlog, cip, chal, admitted, cli, quotes >>

\* Second read: a Solution that DecodeSolution rejects (its payload is not 8
\* bytes); return, nothing is sent.
ReadSolutionBadLength(c) ==
    /\ cst[c] = "readSol"
    /\ inq[c] # << >>
    /\ ~ReadMessage(Head(inq[c])).err
    /\ IsSolution(SecondMessage(c))
    /\ DecodeSolution(SecondMessage(c).Payload).err
    /\ log' = [log EXCEPT ![c] = Append(@, ReadEv(SecondMessage(c)))]
    /\ inq' = [inq EXCEPT ![c] = Tail(@)]
    /\ cst' = [cst EXCEPT ![c] = "exit"]
    /\ UNCHANGED auxVars
    /\ UNCHANGED << call, rlVars, activeConns, shutdown, listener, acc,
                    backlog, cip, chal, failed, admitted, cli, quotes >>

\* ReadSolutionInvalid that takes the identity's last timestamp back.
ReadSolutionInvalidRefund(c) ==
    /\ cst[c] = "readSol"
    /\ inq[c] # << >>
    /\ ~ReadMessage(Head(inq[c])).err
    /\ IsSolution(SecondMessage(c))
    /\ ~DecodeSolution(SecondMessage(c).Payload).err
    /\ ~SolutionVerified(chal[c], DecodeSolution(SecondMessage(c).Payload),
                         cip[c])
    /\ \E ok \in WriteOutcomes :
           /\ log' = [log EXCEPT ![c] =
                         Written(c, Append(@, ReadEv(SecondMessage(c))),
                                 ErrorMessage(ErrorCodeInvalidSolution,
                                              MsgInvalidSolution), ok)]
           /\ failed' = [failed EXCEPT ![c] = @ \/ ~ok]
    /\ inq' = [inq EXCEPT ![c] = Tail(@)]
    /\ cst' = [cst EXCEPT ![c] = "exit"]
    /\ requests' = [k \in DOMAIN requests |->
                       IF k = cip[c] /\ requests[k] # << >>
                       THEN SubSeq(requests[k], 1, Len(requests[k]) - 1)
                       ELSE requests[k]]
    /\ UNCHANGED auxVars
    /\ UNCHANGED << call, now, maxRequests, window, mu, caller, hist,
                    activeConns, shutdown, listener, acc, backlog, cip, chal,
                    admitted, cli, quotes >>

\* ReadSolutionInvalid that reads again instead of returning.
ReadSolutionInvalidRetry(c) ==
    /\ cst[c] = "readSol"
    /\ inq[c] # << >>
    /\ ~ReadMessage(Head(inq[c])).err
    /\ IsSolution(SecondMessage(c))
    /\ ~DecodeSolution(SecondMessage(c).Payload).err
    /\ ~SolutionVerified(chal[c], DecodeSolution(SecondMessage(c).Payload),
                         cip[c])
    /\ log' = [log EXCEPT ![c] = Append(@, ReadEv(SecondMessage(c)))]
    /\ inq' = [inq EXCEPT ![c] = Tail(@)]
    /\ UNCHANGED auxVars
    /\ UNCHANGED << call, rlVars, activeConns, shutdown, listener, acc,
                    backlog, cst, cip, chal, failed, admitted, cli, quotes >>

\* ReadSolutionInvalid without the sendError.
ReadSolutionInvalidSilent(c) ==
    /\ cst[c] = "readSol"
    /\ inq[c] # << >>
    /\ ~ReadMessage(Head(inq[c])).err
    /\ IsSolution(SecondMessage(c))
    /\ ~DecodeSolution(SecondMessage(c).Payload).err
    /\ ~SolutionVerified(chal[c], DecodeSolution(SecondMessage(c).Payload),
                         cip[c])
    /\ log' = [log EXCEPT ![c] = Append(@, ReadEv(SecondMessage(c)))]
    /\ inq' = [inq EXCEPT ![c] = Tail(@)]
    /\ cst' = [cst EXCEPT ![c] = "exit"]
    /\ UNCHANGED auxVars
    /\ UNCHANGED << call, rlVars, activeConns, shutdown, listener, acc,
                    backlog, cip, chal, failed, admitted, cli, quotes >>

\* Second read: a Solution whose nonce fails pow.Verify;
\* sendError(InvalidSolution, "Invalid solution"), return.
ReadSolutionInvalid(c) ==
    /\ cst[c] = "readSol"
    /\ inq[c] # << >>
    /\ ~ReadMessage(Head(inq[c])).err
    /\ IsSolution(SecondMessage(c))
    /\ ~DecodeSolution(SecondMessage(c).Payload).err
    /\ ~SolutionVerified(chal[c], DecodeSolution(SecondMessage(c).Payload),
                         cip[c])
    /\ \E ok \in WriteOutcomes :
           /\ log' = [log EXCEPT ![c] =
                         Written(c, Append(@, ReadEv(SecondMessage(c))),
                                 ErrorMessage(ErrorCodeInvalidSolution,
                                              MsgInvalidSolution), ok)]
           /\ failed' = [failed EXCEPT ![c] = @ \/ ~ok]
    /\ inq' = [inq EXCEPT ![c] = Tail(@)]
    /\ cst' = [cst EXCEPT ![c] = "exit"]
    /\ UNCHANGED auxVars
    /\ UNCHANGED << call, rlVars, activeConns, shutdown, listener, acc,
                    backlog, cip, chal, admitted, cli, quotes >>

\* ReadSolutionNoQuotes that ignores GetRandom's error and sends the empty
\* string it returned as a Quote.
ReadSolutionNoQuotesAsQuote(c) ==
    /\ cst[c] = "readSol"
    /\ inq[c] # << >>
    /\ ~ReadMessage(Head(inq[c])).err
    /\ IsSolution(SecondMessage(c))
    /\ ~DecodeSolution(SecondMessage(c).Payload).err
    /\ SolutionVerified(chal[c], DecodeSolution(SecondMessage(c).Payload),
                        cip[c])
    /\ Len(quotes) = 0
    /\ \E ok \in WriteOutcomes :
           /\ log' = [log EXCEPT ![c] =
                         Written(c, Append(@, ReadEv(SecondMessage(c))),
                                 QuoteMessage(<< >>), ok)]
           /\ failed' = [failed EXCEPT ![c] = @ \/ ~ok]
    /\ inq' = [inq EXCEPT ![c] = Tail(@)]
    /\ cst' = [cst EXCEPT ![c] = "exit"]
    /\ UNCHANGED auxVars
    /\ UNCHANGED << call, rlVars, activeConns, shutdown, listener, acc,
                    backlog, cip, chal, admitted, cli, quotes >>

\* Second read: a verified Solution, quotes.GetRandom fails (no quotes);
\* sendError(InternalError, "No quotes available"), return.
ReadSolutionNoQuotes(c) ==
    /\ cst[c] = "readSol"
    /\ inq[c] # << >>
    /\ ~ReadMessage(Head(inq[c])).err
    /\ IsSolution(SecondMessage(c))
    /\ ~DecodeSolution(SecondMessage(c).Payload).err
    /\ SolutionVerified(chal[c], DecodeSolution(SecondMessage(c).Payload),
                        cip[c])
    /\ Len(quotes) = 0
    /\ \E ok \in WriteOutcomes :
           /\ log' = [log EXCEPT ![c] =
                         Written(c, Append(@, ReadEv(SecondMessage(c))),
                                 ErrorMessage(ErrorCodeInternalError,
                                              MsgNoQuotes), ok)]
           /\ failed' = [failed EXCEPT ![c] = @ \/ ~ok]
    /\ inq' = [inq EXCEPT ![c] = Tail(@)]
    /\ cst' = [cst EXCEPT ![c] = "exit"]
    /\ UNCHANGED auxVars
    /\ UNCHANGED << call, rlVars, activeConns, shutdown, listener, acc,
                    backlog, cip, chal, admitted, cli, quotes >>

\* Second read: a verified Solution, GetRandom returns quotes[idx]; the
\* Quote is encoded and written, return.
ReadSolutionQuote(c) ==
    /\ cst[c] = "readSol"
    /\ inq[c] # << >>
    /\ ~ReadMessage(Head(inq[c])).err
    /\ IsSolution(SecondMessage(c))
    /\ ~DecodeSolution(SecondMessage(c).Payload).err
    /\ SolutionVerified(chal[c], DecodeSolution(SecondMessage(c).Payload),
                        cip[c])
    /\ Len(quotes) # 0
    /\ \E idx \in 1..Len(quotes), ok \in WriteOutcomes :
           /\ log' = [log EXCEPT ![c] =
                         Written(c, Append(@, ReadEv(SecondMessage(c))),
                                 QuoteMessage(quotes[idx]), ok)]
           /\ failed' = [failed EXCEPT ![c] = @ \/ ~ok]
    /\ inq' = [inq EXCEPT ![c] = Tail(@)]
    /\ cst' = [cst EXCEPT ![c] = "exit"]
    /\ UNCHANGED auxVars
    /\ UNCHANGED << call, rlVars, activeConns, shutdown, listener, acc,
                    backlog, cip, chal, admitted, cli, quotes >>

\* HandlerExit with the decrement done twice.
HandlerExitTwice(c) ==
    /\ cst[c] = "exit"
    /\ cst' = [cst EXCEPT ![c] = "closed"]
    /\ activeConns' = activeConns - 2
    /\ UNCHANGED auxVars
    /\ UNCHANGED << call, rlVars, shutdown, listener, acc, backlog, cip, chal,
                    inq, log, failed, admitted, cli, quotes >>

\* HandlerExit without the decrement after a transport failure.
HandlerExitKeepsGauge(c) ==
    /\ cst[c] = "exit"
    /\ cst' = [cst EXCEPT ![c] = "closed"]
    /\ activeConns' = IF failed[c] THEN activeConns ELSE activeConns - 1
    /\ UNCHANGED auxVars
    /\ UNCHANGED << call, rlVars, shutdown, listener, acc, backlog, cip, chal,
                    inq, log, failed, admitted, cli, quotes >>

\* handleConnection's deferred function: conn.Close(), activeConns.Add(-1).
HandlerExit(c) ==
    /\ cst[c] = "exit"
    /\ cst' = [cst EXCEPT ![c] = "closed"]
    /\ activeConns' = activeConns - 1
    /\ UNCHANGED auxVars
    /\ UNCHANGED << call, rlVars, shutdown, listener, acc, backlog, cip, chal,
                    inq, log, failed, admitted, cli, quotes >>

\* The connection is closed on the server's side.
ServerClosed(c) == cst[c] \in {"closed", "refused"}

\* GetQuote: the ChallengeRequest is written.
HonestSendRequest(c) ==
    /\ cli[c].kind = "honest"
    /\ cli[c].pc = "start"
    /\ ~ServerClosed(c)
    /\ inq' = [inq EXCEPT ![c] =
                  Append(@, WriteMessage(
                      [Type |-> MessageTypeChallengeRequest,
                       Payload |-> << >>]))]
    /\ cli' = [cli EXCEPT ![c].pc = "waitChallenge"]
    /\ UNCHANGED auxVars
    /\ UNCHANGED << call, rlVars, activeConns, shutdown, listener, acc,
                    backlog, cst, cip, chal, log, failed, admitted, quotes >>

\* What GetQuote does with the first frame it reads: an Error ends it, as
\* does another type or a payload that does not decode; a ChallengeResponse
\* is decoded into a challenge and solved, and the Solution frame is the
\* result when Solve succeeds.
HonestAfterChallenge(frame) ==
    LET msg == ReadMessage(frame)
        cr == DecodeChallengeResponse(msg.Payload)
        challenge == [Data |-> cr.RandomData, Timestamp |-> cr.Timestamp,
                      ClientIP |-> cr.ClientIP, Difficulty |-> cr.Difficulty]
    IN  IF msg.Type = MessageTypeError THEN [result |-> "error"]
        ELSE IF msg.Type # MessageTypeChallengeResponse
             THEN [result |-> "unexpected"]
        ELSE IF cr.err THEN [result |-> "undecodable"]
        ELSE IF Solve(challenge).err THEN [result |-> "unsolved"]
        ELSE [result |-> "none",
              frame |-> WriteMessage(
                  [Type |-> MessageTypeSolution,
                   Payload |-> EncodeSolution(
                       [Nonce |-> Solve(challenge).nonce])])]

\* GetQuote: the first frame is read; the challenge is solved and the
\* Solution written, or GetQuote returns an error.
HonestRecvChallenge(c) ==
    /\ cli[c].kind = "honest"
    /\ cli[c].pc = "waitChallenge"
    /\ cli[c].nread < Len(ServerFrames(c))
    /\ LET r == HonestAfterChallenge(ServerFrames(c)[cli[c].nread + 1])
       IN  IF r.result = "none"
           THEN /\ inq' = [inq EXCEPT ![c] = Append(@, r.frame)]
                /\ cli' = [cli EXCEPT ![c].pc = "waitQuote",
                                      ![c].nread = @ + 1]
           ELSE /\ inq' = inq
                /\ cli' = [cli EXCEPT ![c].pc = "done", ![c].nread = @ + 1,
                                      ![c].result = r.result]
    /\ UNCHANGED auxVars
    /\ UNCHANGED << call, rlVars, activeConns, shutdown, listener, acc,
                    backlog, cst, cip, chal, log, failed, admitted, quotes >>

\* GetQuote: the second frame is read: an Error ends it with an error, a
\* Quote is decoded and its text returned.
HonestRecvQuote(c) ==
    /\ cli[c].kind = "honest"
    /\ cli[c].pc = "waitQuote"
    /\ cli[c].nread < Len(ServerFrames(c))
    /\ LET msg == ReadMessage(ServerFrames(c)[cli[c].nread + 1])
       IN  cli' = [cli EXCEPT
                      ![c].pc = "done",
                      ![c].nread = @ + 1,
                      ![c].result =
                          IF msg.Type = MessageTypeError THEN "error"
                          ELSE IF msg.Type # MessageTypeQuote
                               THEN "unexpected"
                          ELSE "quote",
                      ![c].text =
                          IF msg.Type = MessageTypeQuote
                          THEN DecodeQuote(msg.Payload).Text ELSE << >>]
    /\ UNCHANGED auxVars
    /\ UNCHANGED << call, rlVars, activeConns, shutdown, listener, acc,
                    backlog, cst, cip, chal, inq, log, failed, admitted,
                    quotes >>

\* GetQuote: a read or write fails because the server has closed the
\* connection with nothing left to read.
HonestEOF(c) ==
    /\ cli[c].kind = "honest"
    /\ cli[c].pc \in {"start", "waitChallenge", "waitQuote"}
    /\ ServerClosed(c)
    /\ cli[c].nread = Len(ServerFrames(c))
    /\ cli' = [cli EXCEPT ![c].pc = "done", ![c].result = "eof"]
    /\ UNCHANGED auxVars
    /\ UNCHANGED << call, rlVars, activeConns, shutdown, listener, acc,
                    backlog, cst, cip, chal, inq, log, failed, admitted,
                    quotes >>

\* An adversarial client writes a frame of its choice, while the handler of
\* its connection runs and has read what was written before.
AdvSend(c) ==
    /\ cli[c].kind = "adversary"
    /\ FramesSent(NumConns) < MaxAdvFrames
    /\ cst[c] \in {"admit", "readReq", "readSol"}
    /\ inq[c] = << >>
    /\ \E f \in AdvFrames : inq' = [inq EXCEPT ![c] = Append(@, f)]
    /\ cli' = [cli EXCEPT ![c].sent = @ + 1]
    /\ UNCHANGED auxVars
    /\ UNCHANGED << call, rlVars, activeConns, shutdown, listener, acc,
                    backlog, cst, cip, chal, log, failed, admitted, quotes >>

\* The quote collections a server may be built with.
QuoteCollections == { << >>, << QuoteA, QuoteB >> }

\* NewRateLimiter, NewServer and Start.
Init ==
    /\ call = [op |-> "none"]
    /\ now = 0
    /\ requests = << >>
    /\ maxRequests = SrvMaxRequests
    /\ window = SrvWindow
    /\ mu = 0
    /\ caller = [p \in Callers |-> IdleCaller]
    /\ hist = << >>
    /\ SrvIdle
    /\ AuxIdle
    /\ quotes \in QuoteCollections

Next ==
    \/ SrvTick
    \/ \E c \in Conns : Dial(c)
    \/ AcceptSelectShutdown
    \/ AcceptSelectDefault
    \/ AcceptConn
    \/ AcceptErrorShutdown
    \/ AcceptErrorContinue
    \/ AcceptReject
    \/ AcceptLoad
    \/ AcceptSpawn
    \/ Stop
    \/ \E c \in Conns : HandlerRateLimited(c)
    \/ \E c \in Conns : HandlerRandFail(c)
    \/ \E c \in Conns : HandlerChallenge(c)
    \/ \E c \in Conns : IOFail(c)
    \/ \E c \in Conns : ReadRequestError(c)
    \/ \E c \in Conns : ReadRequestWrongType(c)
    \/ \E c \in Conns : ReadRequestOk(c)
    \/ \E c \in Conns : ReadSolutionError(c)
    \/ \E c \in Conns : ReadSolutionWrongType(c)
    \/ \E c \in Conns : ReadSolutionBadLength(c)
    \/ \E c \in Conns : ReadSolutionInvalid(c)
    \/ \E c \in Conns : ReadSolutionNoQuotes(c)
    \/ \E c \in Conns : ReadSolutionQuote(c)
    \/ \E c \in Conns : HandlerExit(c)
    \/ \E c \in Conns : HonestSendRequest(c)
    \/ \E c \in Conns : HonestRecvChallenge(c)
    \/ \E c \in Conns : HonestRecvQuote(c)
    \/ \E c \in Conns : HonestEOF(c)
    \/ \E c \in Conns : AdvSend(c)

Spec == Init /\ [][Next]_vars

\* The server with honest clients only, while it is not stopped.
LiveNext ==
    \/ SrvTick
    \/ \E c \in Conns : DialHonest(c)
    \/ AcceptSelectDefault
    \/ AcceptConn
    \/ AcceptErrorContinue
    \/ AcceptReject
    \/ AcceptLoad
    \/ AcceptSpawn
    \/ \E c \in Conns : HandlerRateLimited(c)
    \/ \E c \in Conns : HandlerRandFail(c)
    \/ \E c \in Conns : HandlerChallenge(c)
    \/ \E c \in Conns : IOFail(c)
    \/ \E c \in Conns : ReadRequestOk(c)
    \/ \E c \in Conns : ReadSolutionNoQuotes(c)
    \/ \E c \in Conns : ReadSolutionQuote(c)
    \/ \E c \in Conns : HandlerExit(c)
    \/ \E c \in Conns : HonestSendRequest(c)
    \/ \E c \in Conns : HonestRecvChallenge(c)
    \/ \E c \in Conns : HonestRecvQuote(c)
    \/ \E c \in Conns : HonestEOF(c)

\* The reads of the handler of c that return an honest client's frame.
HandlerRead(c) ==
    \/ ReadRequestOk(c)
    \/ ReadSolutionNoQuotes(c)
    \/ ReadSolutionQuote(c)

\* The steps of GetQuote on connection c.
HonestStep(c) ==
    \/ HonestSendRequest(c)
    \/ HonestRecvChallenge(c)
    \/ HonestRecvQuote(c)
    \/ HonestEOF(c)

\* HandlerRead(c) is enabled: the handler of c waits in a read and a frame
\* of the honest client has arrived.
HandlerHasFrame(c) == cst[c] \in {"readReq", "readSol"} /\ inq[c] # << >>

\* HonestStep(c) is enabled: GetQuote can write its request, or has a frame
\* or the end of the stream to read.
ClientTurn(c) ==
    /\ cli[c].kind = "honest"
    /\ \/ cli[c].pc = "start" /\ ~ServerClosed(c)
       \/ /\ cli[c].pc \in {"waitChallenge", "waitQuote"}
          /\ cli[c].nread < Len(ServerFrames(c))
       \/ /\ cli[c].pc \in {"start", "waitChallenge", "waitQuote"}
          /\ ServerClosed(c)
          /\ cli[c].nread = Len(ServerFrames(c))

\* The goroutines are scheduled: a handler whose read has a frame to return
\* goes on, and the client's GetQuote goes on.  This is the weak fairness
\* of HandlerRead(c) and of HonestStep(c), WF_vars(A) being
\* []<>~ENABLED <<A>>_vars \/ []<><<A>>_vars, with the enabling conditions
\* written out as state predicates.
Fairness ==
    \A c \in Conns :
        /\ []<>~HandlerHasFrame(c) \/ []<><<HandlerRead(c)>>_vars
        /\ []<>~ClientTurn(c) \/ []<><<HonestStep(c)>>_vars

SpecLive == Init /\ [][LiveNext]_vars /\ Fairness

\* The server with honest clients only, and Stop.
StopNext ==
    \/ LiveNext
    \/ Stop
    \/ AcceptSelectShutdown
    \/ AcceptErrorShutdown

SpecStop == Init /\ [][StopNext]_vars /\ Fairness

\* A step of the acceptLoop goroutine.
AcceptLoopStep ==
    \/ AcceptSelectShutdown
    \/ AcceptSelectDefault
    \/ AcceptConn
    \/ AcceptErrorShutdown
    \/ AcceptErrorContinue
    \/ AcceptReject
    \/ AcceptLoad
    \/ AcceptSpawn

\* The acceptLoop goroutine is scheduled: until it has returned it has a
\* step to take (Accept returns an error at the latest when the listener is
\* closed), and it takes steps again and again.  This is the weak fairness
\* of AcceptLoopStep, its enabling condition written as a state predicate.
AcceptFairness == []<>(acc.pc = "done") \/ []<><<AcceptLoopStep>>_vars

\* The server with honest clients and Stop, the accept loop scheduled.
SpecAccept == Init /\ [][StopNext]_vars /\ AcceptFairness

(***************************************************************************)
(* SpecDeadline: the deadlines of one connection handler.  The clock       *)
(* advances only while a read or a write of the handler is pending and     *)
(* its deadline has not expired; the handler's own steps take no time.     *)
(***************************************************************************)
Timeouts == 1..MaxTimeout

ReadPending == hnd.pc \in {"readReq", "readSol"}

WritePending == hnd.pc \in {"writeChallenge", "writeLast"}

\* The clock advances: before the connection is accepted, or while a read
\* (a write) is pending whose read (write) deadline is still ahead.
DlTick ==
    /\ CASE hnd.pc = "none" -> now < MaxStart
         [] ReadPending -> now < hnd.readDeadline
         [] WritePending -> now < hnd.writeDeadline
         [] OTHER -> FALSE
    /\ now' = now + 1
    /\ UNCHANGED << config, hnd >>
    /\ UNCHANGED << call, requests, maxRequests, window, mu, caller, hist,
                    loopVars, srvVars >>

\* What the steps of the handler of SpecDeadline leave alone.
notDl == << call, rlVars, loopVars, srvVars >>

\* handleConnection's entry: deadline := time.Now().Add(ConnectionTimeout),
\* conn.SetDeadline(deadline) sets the read and the write deadline.
SetDeadline ==
    /\ hnd.pc = "none"
    /\ hnd' = [pc |-> "admit", entry |-> now,
               readDeadline |-> now + config.ConnectionTimeout,
               writeDeadline |-> now + config.ConnectionTimeout,
               verified |-> -1]
    /\ UNCHANGED << config, notDl >>

\* Allow denies or GenerateChallenge fails: the handler calls sendError.
AdmitFails ==
    /\ hnd.pc = "admit"
    /\ hnd' = [hnd EXCEPT !.pc = "sendLast"]
    /\ UNCHANGED << config, notDl >>

\* handleChallengeResponse's entry:
\* conn.SetReadDeadline(time.Now().Add(ReadTimeout)) replaces the read
\* deadline; the first ReadMessage is pending.
SetReadDeadline ==
    /\ hnd.pc = "admit"
    /\ hnd' = [hnd EXCEPT !.pc = "readReq",
                          !.readDeadline = now + config.ReadTimeout]
    /\ UNCHANGED << config, notDl >>

\* A pending ReadMessage returns a frame before the read deadline: after the
\* first the handler writes the ChallengeResponse or calls sendError; after
\* the second it calls sendError, writes the Quote (pow.Verify has accepted
\* the solution: `verified` records when), or returns (a Solution of the
\* wrong length).  config.PoWChallengeMaxAge is not read.
ReadReturns ==
    /\ ReadPending
    /\ now <= hnd.readDeadline
    /\ \E next \in IF hnd.pc = "readReq"
                   THEN {"writeChallenge", "sendLast"}
                   ELSE {"sendLast", "closed"},
          ok \in BOOLEAN :
           /\ ok => (hnd.pc = "readSol" /\ next = "sendLast")
           /\ hnd' = [hnd EXCEPT !.pc = next,
                                 !.verified = IF ok THEN now ELSE @]
    /\ UNCHANGED << config, notDl >>

\* A pending ReadMessage fails: the read deadline has expired, or the peer
\* has closed or reset the connection.  The handler returns.
ReadFails ==
    /\ ReadPending
    /\ hnd' = [hnd EXCEPT !.pc = "closed"]
    /\ UNCHANGED << config, notDl >>

\* WriteChallenge that sets a fresh read deadline for the second read.
WriteChallengeRenews ==
    /\ hnd.pc = "writeChallenge"
    /\ \E ok \in BOOLEAN :
           /\ ok => now <= hnd.writeDeadline
           /\ hnd' = [hnd EXCEPT !.pc = IF ok THEN "readSol" ELSE "closed",
                                 !.readDeadline = now + config.ReadTimeout]
    /\ UNCHANGED << config, notDl >>

\* The write of the ChallengeResponse, under the write deadline in force,
\* succeeds (the second ReadMessage is pending) or fails (return).
WriteChallenge ==
    /\ hnd.pc = "writeChallenge"
    /\ \E ok \in BOOLEAN :
           /\ ok => now <= hnd.writeDeadline
           /\ hnd' = [hnd EXCEPT !.pc = IF ok THEN "readSol" ELSE "closed"]
    /\ UNCHANGED << config, notDl >>

\* sendError, and the write of the Quote:
\* conn.SetWriteDeadline(time.Now().Add(WriteTimeout)) replaces the write
\* deadline; the WriteMessage is pending.
SetWriteDeadline ==
    /\ hnd.pc = "sendLast"
    /\ hnd' = [hnd EXCEPT !.pc = "writeLast",
                          !.writeDeadline = now + config.WriteTimeout]
    /\ UNCHANGED << config, notDl >>

\* The last WriteMessage returns, written or failed: the handler returns
\* and its deferred function closes the connection.
WriteLast ==
    /\ hnd.pc = "writeLast"
    /\ hnd' = [hnd EXCEPT !.pc = "closed"]
    /\ UNCHANGED << config, notDl >>

\* A server with positive timeouts; no connection yet.
DlInit ==
    /\ call = NoCall
    /\ now = 0
    /\ requests = << >>
    /\ maxRequests = 1
    /\ window = 1
    /\ mu = 0
    /\ caller = [p \in Callers |-> IdleCaller]
    /\ hist = << >>
    /\ SrvIdle
    /\ quotes = << >>
    /\ config \in [ReadTimeout : Timeouts, WriteTimeout : Timeouts,
                   ConnectionTimeout : Timeouts,
                   PoWChallengeMaxAge : Timeouts]
    /\ hnd = NoHandler
    /\ cleanupStop = FALSE
    /\ cleanupLoop = "running"

DlNext ==
    \/ DlTick
    \/ SetDeadline
    \/ AdmitFails
    \/ SetReadDeadline
    \/ ReadReturns
    \/ ReadFails
    \/ WriteChallenge
    \/ SetWriteDeadline
    \/ WriteLast

SpecDeadline == DlInit /\ [][DlNext]_vars

(***************************************************************************)
(* SpecFrame: ReadMessage applied to frames at the limits of the declared  *)
(* length, before one handler reads the frames of an adversarial client    *)
(* that writes without waiting for the server.  `call` records the         *)
(* frame's header, the number of payload bytes that have arrived, and the  *)
(* result (of a payload, its length and whether it is the frame's).        *)
(***************************************************************************)
\* The bytes that follow the headers.
PayloadBytes == [i \in 1..MaxPayloadLen |-> i % 251]

\* The frame of this type and declared length of which k payload bytes
\* have arrived.
FrameOf(t, n, k) ==
    [type |-> t, length |-> n, payload |-> SubSeq(PayloadBytes, 1, k)]

\* Declared length and bytes arrived: whole frames up to the limit, a frame
\* cut short, and frames over the limit with and without bytes behind the
\* header.
FrameShapes ==
    { << 0, 0 >>, << 1, 1 >>, << 8, 8 >>, << 8, 7 >>,
      << MaxPayloadLen - 1, MaxPayloadLen - 1 >>,
      << MaxPayloadLen, MaxPayloadLen >>,
      << MaxPayloadLen + 1, 0 >>, << MaxPayloadLen + 1, 8 >>,
      << 2147483647, 0 >> }

FrameTypes == { MessageTypeChallengeRequest, MessageTypeSolution }

\* ReadMessage is applied to one of the frames, before the handler's first
\* read and the client's second frame.
CallReadMessage ==
    /\ call = NoCall
    /\ \A c \in Conns : log[c] = << >> /\ cli[c].sent <= 1
    /\ \E t \in FrameTypes, sh \in FrameShapes :
        LET frame == FrameOf(t, sh[1], sh[2])
            r == ReadMessage(frame)
        IN  call' = [op |-> "ReadMessage", type |-> t, length |-> sh[1],
                     arrived |-> sh[2],
                     ret |-> IF r.err THEN r
                             ELSE [err |-> FALSE, Type |-> r.Type,
                                   Len |-> Len(r.Payload),
                                   Same |-> r.Payload = frame.payload]]
    /\ UNCHANGED notPow

\* The first frames the client of SpecFrame may have sent.
FirstFrames ==
    AdvFrames
        \cup { WriteMessage([Type |-> MessageTypeChallengeRequest,
                             Payload |-> << >>]) }

\* One connection from IpA has been accepted and admitted, its handler has
\* generated its challenge and waits for the first message, which the
\* client has sent.
FrameInit ==
    /\ call = NoCall
    /\ now \in 0..SrvMaxTime
    /\ requests = [ip \in { IpA } |-> << now >>]
    /\ maxRequests = SrvMaxRequests
    /\ window = SrvWindow
    /\ mu = 0
    /\ caller = [p \in Callers |-> IdleCaller]
    /\ hist = << [ip |-> IpA, t |-> now, ret |-> TRUE] >>
    /\ activeConns = 1
    /\ shutdown = FALSE
    /\ listener = "open"
    /\ acc = [pc |-> "select", conn |-> 0]
    /\ backlog = << >>
    /\ cst = [c \in Conns |-> IF c = 1 THEN "readReq" ELSE "none"]
    /\ cip = [c \in Conns |-> IF c = 1 THEN IpA ELSE << >>]
    /\ \E data \in SrvRandomDatas :
           chal = [c \in Conns |->
                      IF c = 1
                      THEN [Data |-> data, Timestamp |-> now,
                            ClientIP |-> IpA, Difficulty |-> PoWDifficulty]
                      ELSE NoChallenge]
    /\ \E f \in FirstFrames :
           inq = [c \in Conns |-> IF c = 1 THEN << f >> ELSE << >>]
    /\ log = [c \in Conns |-> << >>]
    /\ failed = [c \in Conns |-> FALSE]
    /\ admitted = [c \in Conns |-> IF c = 1 THEN "allowed" ELSE "none"]
    /\ cli = [c \in Conns |->
                 IF c = 1
                 THEN [kind |-> "adversary", pc |-> "start", nread |-> 0,
                       sent |-> 1, result |-> "none", text |-> << >>]
                 ELSE NoClient]
    /\ quotes \in QuoteCollections
    /\ AuxIdle

\* The client writes one more frame of its choice, whether or not the
\* server has read the ones before, until the server has closed.
FrameSend(c) ==
    /\ cli[c].kind = "adversary"
    /\ cli[c].sent < MaxFrames
    /\ cst[c] \in {"readReq", "readSol", "exit"}
    /\ \E f \in AdvFrames : inq' = [inq EXCEPT ![c] = Append(@, f)]
    /\ cli' = [cli EXCEPT ![c].sent = @ + 1]
    /\ UNCHANGED auxVars
    /\ UNCHANGED << call, rlVars, activeConns, shutdown, listener, acc,
                    backlog, cst, cip, chal, log, failed, admitted, quotes >>

FrameNext ==
    \/ CallReadMessage
    \/ \E c \in Conns : IOFail(c)
    \/ \E c \in Conns : ReadRequestError(c)
    \/ \E c \in Conns : ReadRequestWrongType(c)
    \/ \E c \in Conns : ReadRequestOk(c)
    \/ \E c \in Conns : FrameSend(c)
    \/ \E c \in Conns : ReadSolutionError(c)
    \/ \E c \in Conns : ReadSolutionWrongType(c)
    \/ \E c \in Conns : ReadSolutionBadLength(c)
    \/ \E c \in Conns : ReadSolutionInvalid(c)
    \/ \E c \in Conns : ReadSolutionNoQuotes(c)
    \/ \E c \in Conns : ReadSolutionQuote(c)
    \/ \E c \in Conns : HandlerExit(c)

SpecFrame == FrameInit /\ [][FrameNext]_vars

(***************************************************************************)
(* Claims about the pure functions of internal/pow (under SpecPow).        *)
(***************************************************************************)
\* Bit k (1..256) of a digest: bytes from index 0, bits from the high end.
DigestBit(hash, k) ==
    (hash[((k - 1) \div 8) + 1] \div (2 ^ (7 - ((k - 1) % 8)))) % 2

\* The acceptance predicate of the data model: the presented identity is
\* the challenge's and the digest has at least Difficulty leading zero bits.
Accepts(c, nonce, clientIP) ==
    /\ clientIP = c.ClientIP
    /\ CountLeadingZeroBits(ComputeHash(c, nonce)) >= c.Difficulty

\* C4: Verify(c, n, i) is true iff i equals c's identity and the digest of
\* the canonical form of (c, n) has at least c.Difficulty leading zero bits;
\* so a nonce valid for c is rejected under any other identity.
C4_VerifyIffIdentityAndBits ==
    call.op = "Verify" =>
        /\ call.ret <=> Accepts(call.c, call.nonce, call.clientIP)
        /\ call.clientIP # call.c.ClientIP => ~call.ret

\* C4's case: a nonce that meets a positive difficulty for c is presented
\* under another identity, and Verify has rejected it.
C4_Witness ==
    /\ call.op = "Verify"
    /\ call.c.Difficulty > 0
    /\ call.clientIP # call.c.ClientIP
    /\ CountLeadingZeroBits(ComputeHash(call.c, call.nonce))
           >= call.c.Difficulty
    /\ ~call.ret

\* C5: CountLeadingZeroBits returns exactly the number of zero bits before
\* the first one bit of the digest (bytes from index 0, bits from the high
\* end); the result is in 0..256 and is 256 for the all-zero digest.
C5_CountLeadingZeroBitsExact ==
    call.op = "CountLeadingZeroBits" =>
        /\ call.ret \in 0..(8 * DigestSize)
        /\ \A k \in 1..call.ret : DigestBit(call.hash, k) = 0
        /\ call.ret < 8 * DigestSize => DigestBit(call.hash, call.ret + 1) = 1
        /\ (\A i \in 1..DigestSize : call.hash[i] = 0)
               => call.ret = 8 * DigestSize

\* C5's case: zero bytes are followed by a byte with leading zero bits of
\* its own (two zero bytes, then 0x0F), and the count is 8 + 8 + 4.
C5_Witness ==
    /\ call.op = "CountLeadingZeroBits"
    /\ call.hash[1] = 0 /\ call.hash[2] = 0 /\ call.hash[3] = 15
    /\ call.ret = 20

\* C6: when Solve returns without error its nonce passes Verify under the
\* challenge's identity and no smaller nonce does; Solve reports an error
\* only when no nonce of its search range passes.
C6_SolveFirstValid ==
    call.op = "Solve" =>
        LET c == call.c
            r == call.ret
        IN  /\ ~r.err =>
                /\ r.nonce \in 0..(SolveRange - 1)
                /\ Accepts(c, r.nonce, c.ClientIP)
                /\ Verify(c, r.nonce, c.ClientIP)
                /\ \A m \in 0..(r.nonce - 1) : ~Accepts(c, m, c.ClientIP)
            /\ r.err =>
                \A m \in 0..(SolveRange - 1) : ~Accepts(c, m, c.ClientIP)

\* C6's case: Solve has passed over nonce 0 and more and returned a later
\* nonce.
C6_Witness ==
    /\ call.op = "Solve"
    /\ ~call.ret.err
    /\ call.ret.nonce >= 2

(***************************************************************************)
(* Claims about the rate limiter (under SpecRL).                           *)
(***************************************************************************)
\* The calls of hist that admitted ip.
Admissions(ip) == { k \in DOMAIN hist : hist[k].ip = ip /\ hist[k].ret }

\* The timestamps of ip's admissions, in the order Allow returned them.
RECURSIVE AdmittedTimes(_, _)
AdmittedTimes(ip, k) ==
    IF k = 0 THEN << >>
    ELSE IF hist[k].ip = ip /\ hist[k].ret
         THEN Append(AdmittedTimes(ip, k - 1), hist[k].t)
    ELSE AdmittedTimes(ip, k - 1)

\* The admissions of call k's identity before call k that are still within
\* the window at call k's time.
CountedBefore(k) ==
    Cardinality({ j \in 1..(k - 1) :
                    /\ hist[j].ip = hist[k].ip
                    /\ hist[j].ret
                    /\ hist[k].t - hist[j].t <= window })

IsSuffix(s, t) ==
    /\ Len(s) <= Len(t)
    /\ s = SubSeq(t, Len(t) - Len(s) + 1, Len(t))

\* C2: for every identity, limit and window, and every interleaving of
\* Allow calls with cleanup, the admissions of the identity with timestamps
\* inside any interval of length window are at most maxRequests.
C2_AdmissionsPerWindowBounded ==
    \A ip \in RLIdentities : \A t \in 0..MaxTime :
        Cardinality({ k \in Admissions(ip) : hist[k].t \in t..(t + window) })
            <= maxRequests

\* C2's case: with a limit of two, two admissions of one identity fill a
\* window and a further call of that identity has been denied, with
\* the map reclaimed by cleanup at some point (the other identity's entry,
\* admitted earlier, is gone).
C2_Witness ==
    /\ maxRequests = 2
    /\ \E ip \in RLIdentities : \E t \in 0..MaxTime :
           /\ Cardinality({ k \in Admissions(ip) :
                              hist[k].t \in t..(t + window) }) = 2
           /\ \E k \in DOMAIN hist : hist[k].ip = ip /\ ~hist[k].ret
           /\ \E other \in RLIdentities \ {ip} :
                  /\ Admissions(other) # {}
                  /\ other \notin DOMAIN requests

\* C3: Allow returns true iff fewer than maxRequests earlier admissions of
\* the identity are within the window (age <= window) at the call's time;
\* an admission is stored as the identity's most recent timestamp, and each
\* one stops counting on its own once older than window.
C3_AllowIffUnderLimit ==
    /\ \A k \in DOMAIN hist : hist[k].ret <=> (CountedBefore(k) < maxRequests)
    /\ \A ip \in RLIdentities :
           LET adm == AdmittedTimes(ip, Len(hist))
               cur == Timestamps0(requests, ip)
           IN  /\ IsSuffix(cur, adm)
               /\ Cardinality({ i \in DOMAIN adm : now - adm[i] <= window })
                      <= Len(cur)

\* C3's case: an identity at its limit was denied and is admitted again
\* once its oldest admission has aged out, while a later admission made
\* before the denial still counts (the window slides, it is not reset).
C3_Witness ==
    \E i, j, k \in DOMAIN hist : \E i2 \in DOMAIN hist :
        /\ i < i2 /\ i2 < j /\ j < k
        /\ hist[i].ip = hist[k].ip /\ hist[i2].ip = hist[k].ip
        /\ hist[j].ip = hist[k].ip
        /\ hist[i].ret /\ hist[i2].ret /\ ~hist[j].ret /\ hist[k].ret
        /\ hist[k].t - hist[i].t > window
        /\ hist[k].t - hist[i2].t <= window

RECURSIVE ReplayStore(_)
\* The map of a limiter that never runs cleanup, after the first k calls of
\* the history.
ReplayStore(k) ==
    IF k = 0 THEN << >>
    ELSE LET reqs == ReplayStore(k - 1)
         IN  AllowStore(reqs, hist[k].ip, Timestamps0(reqs, hist[k].ip),
                        hist[k].t, window, maxRequests)

\* What the k-th call of the history returns from that limiter.
ReplayResult(k) ==
    Admits(Valid(Timestamps0(ReplayStore(k - 1), hist[k].ip), hist[k].t,
                 window),
           maxRequests)

\* C18: every Allow call returned what a limiter that never runs cleanup
\* returns for the same calls at the same times, wherever cleanup passes
\* ran between the calls.
C18_CleanupKeepsOutcomes ==
    \A k \in DOMAIN hist : hist[k].ret = ReplayResult(k)

\* Cleanup has deleted an identity that the limiter without cleanup still
\* holds, and Allow has both admitted and denied.
C18_Witness ==
    /\ mu = 0
    /\ \E ip \in DOMAIN ReplayStore(Len(hist)) : ip \notin DOMAIN requests
    /\ \E k \in DOMAIN hist : hist[k].ret
    /\ \E k \in DOMAIN hist : ~hist[k].ret

(***************************************************************************)
(* Claims about the connection handler.                                    *)
(***************************************************************************)
\* The events of connection c in which the server writes a frame of type t.
WritesOfType(c, t) ==
    { k \in DOMAIN log[c] : log[c][k].ev = "write" /\ log[c][k].msg.Type = t }

\* Event j of connection c is the read of a Solution frame whose nonce
\* solves the connection's challenge for its identity.
ReadsValidSolution(c, j) ==
    /\ log[c][j].ev = "read"
    /\ log[c][j].msg.Type = MessageTypeSolution
    /\ Len(log[c][j].msg.Payload) = 8
    /\ chal[c] # NoChallenge
    /\ Accepts(chal[c], BigEndianValue(log[c][j].msg.Payload), cip[c])

\* C1: on every connection, before each Quote the server writes it has
\* written a ChallengeResponse and, after that, read a Solution whose nonce
\* passes verification against the connection's challenge and identity.
C1_QuoteOnlyAfterVerifiedSolution ==
    \A c \in Conns :
        \A k \in WritesOfType(c, MessageTypeQuote) :
            \E i \in WritesOfType(c, MessageTypeChallengeResponse) :
                \E j \in (i + 1)..(k - 1) : ReadsValidSolution(c, j)

\* A connection on which the server wrote a Quote after the client's second
\* frame.
C1_Witness ==
    \E c \in Conns :
        /\ Len(log[c]) = 4
        /\ WritesOfType(c, MessageTypeQuote) = { 4 }
        /\ ReadsValidSolution(c, 3)

\* The handler of c has returned with no transport failure: no write failed,
\* no read failed or timed out, and ReadMessage returned every frame.
ReturnedWithoutFailure(c) ==
    /\ cst[c] \in {"exit", "closed"}
    /\ admitted[c] # "none"
    /\ ~failed[c]
    /\ \A k \in DOMAIN log[c] : log[c][k].ev # "readerr"

\* The events of c in which the server writes a Quote or an Error.
TerminalWrites(c) ==
    WritesOfType(c, MessageTypeQuote) \cup WritesOfType(c, MessageTypeError)

\* C8 (as the specification states it): a connection whose handler returns
\* without a transport failure has been sent exactly one terminal frame, a
\* Quote or an Error, and it is the last frame sent.
C8_ExactlyOneTerminalFrame ==
    \A c \in Conns :
        ReturnedWithoutFailure(c) =>
            /\ Cardinality(TerminalWrites(c)) = 1
            /\ Len(log[c]) \in TerminalWrites(c)

\* The text "Rate limit exceeded".
TextRateLimitExceeded ==
    << 82, 97, 116, 101, 32, 108, 105, 109, 105, 116, 32, 101, 120, 99, 101,
       101, 100, 101, 100 >>

\* Event e is the write of an Error frame with this code and text.
IsErrorWrite(e, code, text) ==
    /\ e.ev = "write"
    /\ e.msg.Type = MessageTypeError
    /\ ~DecodeError(e.msg.Payload).err
    /\ DecodeError(e.msg.Payload).Code = code
    /\ DecodeError(e.msg.Payload).Message = text

\* C9: a connection whose identity Allow denied has no challenge, its
\* handler has returned, and the only event on it is the write of
\* Error(3, "Rate limit exceeded") (nothing at all when that write failed):
\* no frame is read, no ChallengeResponse and no Quote is written.
C9_DenialSendsOnlyRateLimitError ==
    \A c \in Conns :
        admitted[c] = "denied" =>
            /\ chal[c] = NoChallenge
            /\ cst[c] \in {"exit", "closed"}
            /\ IF failed[c]
               THEN log[c] = << >>
               ELSE /\ Len(log[c]) = 1
                    /\ IsErrorWrite(log[c][1], 3, TextRateLimitExceeded)

\* A denied connection, closed after the Error was written, on which a
\* frame of the client is left unread.
C9_Witness ==
    \E c \in Conns :
        /\ admitted[c] = "denied"
        /\ cst[c] = "closed"
        /\ ~failed[c]
        /\ Len(log[c]) = 1
        /\ inq[c] # << >>

\* The text "Expected challenge request".
TextExpectedChallengeRequest ==
    << 69, 120, 112, 101, 99, 116, 101, 100, 32, 99, 104, 97, 108, 108, 101,
       110, 103, 101, 32, 114, 101, 113, 117, 101, 115, 116 >>

\* The text "Expected solution".
TextExpectedSolution ==
    << 69, 120, 112, 101, 99, 116, 101, 100, 32, 115, 111, 108, 117, 116,
       105, 111, 110 >>

\* The first frame read on c is well framed and not a ChallengeRequest.
WrongTypeInFirstPhase(c) ==
    /\ Len(log[c]) >= 1
    /\ log[c][1].ev = "read"
    /\ log[c][1].msg.Type # MessageTypeChallengeRequest

\* The second frame read on c is well framed and not a Solution.
WrongTypeInSecondPhase(c) ==
    /\ Len(log[c]) >= 3
    /\ log[c][1].ev = "read"
    /\ log[c][3].ev = "read"
    /\ log[c][3].msg.Type # MessageTypeSolution

\* C10: after a frame of the wrong type the handler has returned and the one
\* event that follows the read is the write of Error(1, "Expected challenge
\* request") in the first phase, of Error(1, "Expected solution") in the
\* second (no event when the write failed): no further read, no
\* ChallengeResponse in the first phase, no Quote in the second.
C10_WrongTypeGetsError1 ==
    \A c \in Conns :
        /\ WrongTypeInFirstPhase(c) =>
               /\ cst[c] \in {"exit", "closed"}
               /\ WritesOfType(c, MessageTypeChallengeResponse) = { }
               /\ IF failed[c]
                  THEN Len(log[c]) = 1
                  ELSE /\ Len(log[c]) = 2
                       /\ IsErrorWrite(log[c][2], 1,
                                       TextExpectedChallengeRequest)
        /\ WrongTypeInSecondPhase(c) =>
               /\ cst[c] \in {"exit", "closed"}
               /\ WritesOfType(c, MessageTypeQuote) = { }
               /\ IF failed[c]
                  THEN Len(log[c]) = 3
                  ELSE /\ Len(log[c]) = 4
                       /\ IsErrorWrite(log[c][4], 1, TextExpectedSolution)

\* A closed connection whose second frame carried an unknown type byte and
\* was answered with the Error.
C10_Witness ==
    \E c \in Conns :
        /\ WrongTypeInSecondPhase(c)
        /\ log[c][3].msg.Type > MessageTypeError
        /\ Len(log[c]) = 4
        /\ cst[c] = "closed"

\* The happy path's conditions on connection c: an honest client, the
\* connection admitted under the cap and under the rate limit, a challenge
\* generated, and a quote collection that is not empty.
HappyPath(c) ==
    /\ cli[c].kind = "honest"
    /\ admitted[c] = "allowed"
    /\ chal[c] # NoChallenge
    /\ Len(quotes) > 0

\* GetQuote on c has returned a text of the quote collection.
ReceivedQuote(c) ==
    /\ cli[c].pc = "done"
    /\ cli[c].result = "quote"
    /\ \E i \in DOMAIN quotes : cli[c].text = quotes[i]

\* The happy path is cut short on c: a transport failure or an expired
\* deadline, or no nonce in the range the client searches.
CutShort(c) == failed[c] \/ cli[c].result = "unsolved"

\* The frame the handler of c is about to read is the one it expects: a
\* ChallengeRequest in the first phase, in the second a Solution whose nonce
\* solves the connection's challenge.
ExpectedFrameNext(c) ==
    LET f == Head(inq[c])
    IN  IF cst[c] = "readReq"
        THEN f.type = MessageTypeChallengeRequest /\ f.length = Len(f.payload)
        ELSE /\ f.type = MessageTypeSolution
             /\ f.length = 8
             /\ Len(f.payload) = 8
             /\ Accepts(chal[c], BigEndianValue(f.payload), cip[c])

\* C7: on the happy path the honest client eventually receives a Quote
\* whose text is in the quote collection, unless the transport fails; the
\* server writes it no Error frame, and every frame the client sends is the
\* one the handler expects.
C7_HonestClientGetsQuote ==
    \A c \in Conns :
        /\ (HappyPath(c) ~> (ReceivedQuote(c) \/ CutShort(c)))
        /\ [](HappyPath(c) /\ HandlerHasFrame(c) => ExpectedFrameNext(c))
        /\ [](HappyPath(c) /\ ~CutShort(c)
                  => WritesOfType(c, MessageTypeError) = { })

\* An honest client has received a quote of the collection over a
\* connection without failure, with a nonce other than 0.
C7_Witness ==
    \E c \in Conns :
        /\ HappyPath(c)
        /\ ReceivedQuote(c)
        /\ ~CutShort(c)
        /\ \E j \in DOMAIN log[c] :
               /\ ReadsValidSolution(c, j)
               /\ BigEndianValue(log[c][j].msg.Payload) > 0

\* The text "Invalid solution".
TextInvalidSolution ==
    << 73, 110, 118, 97, 108, 105, 100, 32, 115, 111, 108, 117, 116, 105, 111,
       110 >>

\* Event j of connection c is the read, after the ChallengeResponse was
\* written, of a Solution frame of 8 bytes whose nonce does not solve the
\* connection's challenge for its identity.
ReadsInvalidSolution(c, j) ==
    /\ \E i \in 1..(j - 1) : i \in WritesOfType(c, MessageTypeChallengeResponse)
    /\ log[c][j].ev = "read"
    /\ log[c][j].msg.Type = MessageTypeSolution
    /\ Len(log[c][j].msg.Payload) = 8
    /\ chal[c] # NoChallenge
    /\ ~Accepts(chal[c], BigEndianValue(log[c][j].msg.Payload), cip[c])

\* The connections whose handler has been spawned and has not yet run its
\* deferred decrement.
RunningHandlers ==
    { c \in Conns : cst[c] \in {"admit", "readReq", "readSol", "exit"} }

\* C11: after the read of a Solution whose nonce fails verification the
\* handler has returned; the one event after the read is the write of
\* Error(2, "Invalid solution") (no event when that write failed), whether
\* the quote collection is empty or not; no Quote is written on the
\* connection; and once the connection is closed the gauge no longer counts
\* it.
C11_InvalidSolutionGetsError2 ==
    \A c \in Conns :
        \A j \in DOMAIN log[c] :
            ReadsInvalidSolution(c, j) =>
                /\ cst[c] \in {"exit", "closed"}
                /\ WritesOfType(c, MessageTypeQuote) = { }
                /\ IF failed[c]
                   THEN Len(log[c]) = j
                   ELSE /\ Len(log[c]) = j + 1
                        /\ IsErrorWrite(log[c][j + 1], 2, TextInvalidSolution)
                /\ cst[c] = "closed" =>
                       /\ c \notin RunningHandlers
                       /\ activeConns = Cardinality(RunningHandlers)

\* A server without quotes has answered a Solution with a wrong nonce by
\* Error 2 and closed the connection, the gauge back at 0.
C11_Witness ==
    \E c \in Conns :
        /\ Len(log[c]) = 4
        /\ ReadsInvalidSolution(c, 3)
        /\ ~failed[c]
        /\ cst[c] = "closed"
        /\ Len(quotes) = 0
        /\ activeConns = 0

(***************************************************************************)
(* Claims about the active-connection gauge and the accept loop.           *)
(***************************************************************************)
\* C12: the gauge is never negative.
C12_GaugeNonNegative == activeConns >= 0

\* Both connections were admitted one after the other and both handlers
\* have run their decrement: two increments, two decrements, the gauge at 0.
C12_Witness ==
    /\ \A c \in Conns : cst[c] = "closed" /\ admitted[c] # "none"
    /\ activeConns = 0

\* The step spawns a handler for c, or the handler of c runs its deferred
\* decrement.
Spawned(c) == c \notin RunningHandlers /\ c \in RunningHandlers'

Exited(c) == c \in RunningHandlers /\ c \notin RunningHandlers'

\* The gauge moves with the handlers: up by one in the step that spawns a
\* handler (for a connection just accepted), down by one in the step that
\* ends one (the deferred function, after the handler has returned), and
\* not at all in any other step.
GaugeFollowsHandlers ==
    /\ \A c \in Conns :
           Spawned(c) => /\ cst[c] = "accepted"
                         /\ cst'[c] = "admit"
                         /\ activeConns' = activeConns + 1
    /\ \A c \in Conns :
           Exited(c) => /\ cst[c] = "exit"
                        /\ cst'[c] = "closed"
                        /\ activeConns' = activeConns - 1
    /\ (\A c \in Conns : ~Spawned(c) /\ ~Exited(c))
           => activeConns' = activeConns

\* C13: the gauge is incremented once with each spawn and decremented once
\* with each handler's end, whatever the path on which the handler
\* returned; it always equals the number of handlers spawned and not yet
\* ended, and is 0 when there is none.
C13_GaugeCountsRunningHandlers ==
    /\ [](activeConns = Cardinality(RunningHandlers))
    /\ [](RunningHandlers = { } => activeConns = 0)
    /\ [][GaugeFollowsHandlers]_vars

\* One handler ended after a rate-limit denial, the other was admitted and
\* returned without a terminal frame (a failed read or write, or a silent
\* return): both have run their decrement, the gauge is 0.
C13_Witness ==
    /\ \E c \in Conns : cst[c] = "closed" /\ admitted[c] = "denied"
    /\ \E c \in Conns :
           /\ cst[c] = "closed"
           /\ admitted[c] = "allowed"
           /\ TerminalWrites(c) = { }
    /\ activeConns = 0

\* The step closes connection c at the cap.
Refused(c) == cst[c] # "refused" /\ cst'[c] = "refused"

\* A connection is closed at the cap only with the gauge at or over the cap,
\* the gauge and the frames unchanged; and the accept loop, holding a
\* connection with the gauge at or over the cap, closes it.
RefusedAtCap ==
    /\ \A c \in Conns :
           Refused(c) => /\ activeConns >= MaxConnections
                         /\ activeConns' = activeConns
                         /\ log' = log
    /\ (acc.pc = "check" /\ activeConns >= MaxConnections /\ acc' # acc)
           => Refused(acc.conn)

\* C14: the gauge and the number of running handlers never exceed
\* MaxConnections; a connection closed at the cap has no handler, no
\* challenge and no frame written to it; the step that closes it is taken
\* with the gauge at or over the cap and leaves the gauge and every
\* connection's frames unchanged; and the accept loop, holding a
\* connection with the gauge at or over the cap, does nothing else with it.
C14_CapNeverExceeded ==
    /\ [](/\ activeConns <= MaxConnections
          /\ Cardinality(RunningHandlers) <= MaxConnections
          /\ \A c \in Conns :
                 cst[c] = "refused" =>
                     /\ log[c] = << >>
                     /\ admitted[c] = "none"
                     /\ chal[c] = NoChallenge)
    /\ [][RefusedAtCap]_vars

\* A connection was closed at the cap while a handler was running.
C14_Witness ==
    \E c \in Conns :
        /\ cst[c] = "refused"
        /\ activeConns = MaxConnections
        /\ RunningHandlers # { }

\* C15 (as the specification states it): once the shutdown signal has been
\* raised, no step spawns a handler and no step increments the gauge.
C15_NoAdmissionAfterShutdown ==
    [][shutdown => /\ \A c \in Conns : ~Spawned(c)
                   /\ activeConns' <= activeConns]_vars

\* Stop leaves the gauge, every connection, every handler's position and
\* challenge, and the frames in flight as they are.
StopKeepsHandlers ==
    shutdown' # shutdown =>
        UNCHANGED << activeConns, cst, cip, chal, inq, log, failed,
                     admitted, cli >>

\* The handler of c has returned after a terminal frame (a Quote or an
\* Error, the last frame written), or after a transport failure or an
\* expired deadline.
Completed(c) ==
    /\ cst[c] \in {"exit", "closed"}
    /\ failed[c] \/ Len(log[c]) \in TerminalWrites(c)

\* C16: the step of Stop changes nothing of any connection or handler; Stop
\* can be taken whatever the handlers are doing; and a handler that waits
\* for the Solution after the shutdown signal still returns after a Quote
\* or an Error, or at a failure of its own connection.
C16_ShutdownKeepsHandlers ==
    /\ [][StopKeepsHandlers]_vars
    /\ [](~shutdown => ENABLED Stop)
    /\ \A c \in Conns : (shutdown /\ cst[c] = "readSol") ~> Completed(c)

\* Stop has returned and the accept loop has exited while a handler still
\* waits for the Solution, which the client has sent.
C16_Witness ==
    /\ shutdown
    /\ listener = "closed"
    /\ acc.pc = "done"
    /\ \E c \in Conns : cst[c] = "readSol" /\ inq[c] # << >>

(***************************************************************************)
(* Claims about the handler's deadlines (under SpecDeadline).              *)
(***************************************************************************)
\* C17 (as the specification states it): from the handler's entry until its
\* connection is closed, hence while any of its reads or writes is pending,
\* the clock is at most ConnectionTimeout past the entry.
C17_OverallDeadlineBoundsHandler ==
    hnd.pc # "none" => now <= hnd.entry + config.ConnectionTimeout

(***************************************************************************)
(* Claims about the cleanup goroutine's lifecycle (under SpecRL).          *)
(***************************************************************************)
\* C19 (as the specification states it): once RateLimiter.Stop has
\* returned, cleanupLoop has returned and no cleanup pass is running.
C19_StopJoinsCleanupLoop ==
    cleanupStop => cleanupLoop = "returned" /\ mu # CleanupHolder

(***************************************************************************)
(* Claims about the codecs of internal/protocol (under SpecCodec).         *)
(***************************************************************************)
\* The decoding of the call has no error and equals the message, field by
\* field.
SameFields ==
    /\ ~call.ret.err
    /\ \A f \in DOMAIN call.msg : call.ret[f] = call.msg[f]

\* C20 (as the specification states it): for every message of the four
\* variants, whatever its field values, decoding its encoding gives the
\* message back field by field.
C20_CodecRoundTrip ==
    call.op \in {"ChallengeResponse", "Solution", "Quote", "Error"}
        => SameFields

(***************************************************************************)
(* Claims about framing (under SpecFrame).                                 *)
(***************************************************************************)
\* C21: ReadMessage returns the "too large" error for every frame whose
\* declared length is over 1,048,576, whether or not bytes follow the
\* header; it returns the frame's type and payload for every frame of
\* declared length 0 to 1,048,576 whose bytes have all arrived; and a
\* handler to which ReadMessage returned "too large" has returned with
\* that read as its last event: it writes no frame after it.
C21_OversizedFrameRejected ==
    /\ call.op = "ReadMessage" =>
           /\ call.length > 1048576 =>
                  call.ret.err /\ call.ret.why = "too large"
           /\ (call.length <= 1048576 /\ call.arrived = call.length) =>
                  /\ ~call.ret.err
                  /\ call.ret.Type = call.type
                  /\ call.ret.Len = call.length
                  /\ call.ret.Same
    /\ \A c \in Conns :
           \A k \in DOMAIN log[c] :
               (log[c][k].ev = "readerr" /\ log[c][k].why = "too large") =>
                   /\ k = Len(log[c])
                   /\ cst[c] \in {"exit", "closed"}

\* ReadMessage has returned a payload of exactly 1,048,576 bytes, and the
\* handler has closed its connection after an oversized second frame, the
\* ChallengeResponse being the only frame it wrote.
C21_Witness ==
    /\ call.op = "ReadMessage"
    /\ call.length = 1048576
    /\ ~call.ret.err
    /\ \E c \in Conns :
           /\ cst[c] = "closed"
           /\ Len(log[c]) = 3
           /\ log[c][3].ev = "readerr"
           /\ log[c][3].why = "too large"
           /\ WritesOfType(c, MessageTypeChallengeResponse) = { 2 }

(***************************************************************************)
(* Claims about the age of challenges (under SpecDeadline).                *)
(***************************************************************************)
\* C22 (as the specification states it): when the handler accepts a
\* solution (pow.Verify returned true and the Quote is to be sent), the
\* age of the challenge, generated at the handler's entry, is at most the
\* configured PoWChallengeMaxAge.
C22_ExpiredChallengeNeverAccepted ==
    hnd.verified # -1 =>
        hnd.verified - hnd.entry <= config.PoWChallengeMaxAge

(***************************************************************************)
(* Claims about the order of the exchange (under SpecFrame).               *)
(***************************************************************************)
\* The reads the handler of c has made, failed ones included.
ReadsOf(c) == { k \in DOMAIN log[c] : log[c][k].ev \in {"read", "readerr"} }

\* The frames the handler of c has written.
WritesOf(c) == { k \in DOMAIN log[c] : log[c][k].ev = "write" }

\* The reads of c that returned a frame of type t.
ReadsOfType(c, t) ==
    { k \in DOMAIN log[c] : log[c][k].ev = "read" /\ log[c][k].msg.Type = t }

\* C23: on every connection the handler makes at most two reads and at
\* most two writes; before each ChallengeResponse it writes it has read a
\* ChallengeRequest; before each Quote it has written a ChallengeResponse
\* and, after that, read a Solution; a written Error or Quote is the last
\* event of the connection; and the read of a Solution that fails
\* verification is followed by no other read, whatever the client has
\* written behind it.
C23_SequentialExchange ==
    \A c \in Conns :
        /\ Cardinality(ReadsOf(c)) <= 2
        /\ Cardinality(WritesOf(c)) <= 2
        /\ \A k \in WritesOfType(c, MessageTypeChallengeResponse) :
               \E j \in ReadsOfType(c, MessageTypeChallengeRequest) : j < k
        /\ \A k \in WritesOfType(c, MessageTypeQuote) :
               \E i \in WritesOfType(c, MessageTypeChallengeResponse) :
                   \E j \in ReadsOfType(c, MessageTypeSolution) :
                       i < j /\ j < k
        /\ \A k \in TerminalWrites(c) : k = Len(log[c])
        /\ \A j \in DOMAIN log[c] :
               ReadsInvalidSolution(c, j) =>
                   \A k \in ReadsOf(c) : k <= j

\* The handler has read a ChallengeRequest, written the ChallengeResponse,
\* read a Solution that failed verification and written the Error, and has
\* closed the connection while a third frame of the client, a Solution
\* of eight bytes, is unread.
C23_Witness ==
    \E c \in Conns :
        /\ cst[c] = "closed"
        /\ Len(log[c]) = 4
        /\ ReadsInvalidSolution(c, 3)
        /\ Len(log[c]) \in WritesOfType(c, MessageTypeError)
        /\ Len(inq[c]) = 1
        /\ ~ReadMessage(inq[c][1]).err
        /\ ReadMessage(inq[c][1]).Type = MessageTypeSolution
        /\ Len(ReadMessage(inq[c][1]).Payload) = 8

(***************************************************************************)
(* Claims about the difficulty on the wire (under SpecCodec).              *)
(***************************************************************************)
\* C24 (as the specification states it): for every configured
\* PoWDifficulty, the difficulty the client decodes from the
\* ChallengeResponse is the difficulty of the server's challenge, and a
\* nonce that Solve finds for the decoded challenge is accepted by the
\* server's Verify.
C24_WireCarriesDifficulty ==
    call.op = "Exchange" =>
        /\ call.decoded.Difficulty = call.challenge.Difficulty
        /\ call.solved => call.accepted

\* C25 (as the specification states it): a connection whose first frame
\* read is a ChallengeRequest with a non-empty payload is sent no
\* ChallengeResponse.
C25_RequestWithPayloadRejected ==
    \A c \in Conns :
        ( /\ Len(log[c]) >= 1
          /\ log[c][1].ev = "read"
          /\ log[c][1].msg.Type = MessageTypeChallengeRequest
          /\ log[c][1].msg.Payload # << >> ) =>
            WritesOfType(c, MessageTypeChallengeResponse) = { }

(***************************************************************************)
(* Claims about the quote sent (under SpecFrame).                          *)
(***************************************************************************)
\* The text "No quotes available".
TextNoQuotesAvailable ==
    << 78, 111, 32, 113, 117, 111, 116, 101, 115, 32, 97, 118, 97, 105, 108,
       97, 98, 108, 101 >>

\* Event j of connection c is the read, after the ChallengeResponse was
\* written, of a Solution frame whose nonce solves the connection's
\* challenge for its identity.
ReadsVerifiedSolution(c, j) ==
    /\ \E i \in 1..(j - 1) : i \in WritesOfType(c, MessageTypeChallengeResponse)
    /\ ReadsValidSolution(c, j)

\* C26: after the read of a verified Solution the handler has returned and
\* at most one event follows the read, exactly one unless the write failed.
\* With an empty quote collection that event is the write of
\* Error(5, "No quotes available") and no Quote is written on the
\* connection; with a non-empty collection it is the write of a Quote
\* whose text is an element of the collection.
C26_QuoteOrNoQuotesError ==
    \A c \in Conns :
        \A j \in DOMAIN log[c] :
            ReadsVerifiedSolution(c, j) =>
                /\ cst[c] \in {"exit", "closed"}
                /\ Len(log[c]) <= j + 1
                /\ ~failed[c] => Len(log[c]) = j + 1
                /\ Len(quotes) = 0 =>
                       WritesOfType(c, MessageTypeQuote) = { }
                /\ Len(log[c]) = j + 1 =>
                       IF Len(quotes) = 0
                       THEN IsErrorWrite(log[c][j + 1], 5,
                                         TextNoQuotesAvailable)
                       ELSE /\ log[c][j + 1].ev = "write"
                            /\ log[c][j + 1].msg.Type = MessageTypeQuote
                            /\ \E i \in DOMAIN quotes :
                                   DecodeQuote(log[c][j + 1].msg.Payload).Text
                                       = quotes[i]

\* With an empty collection, a connection has been sent Error(5) after its
\* verified Solution.
C26_Witness ==
    \E c \in Conns :
        /\ Len(quotes) = 0
        /\ Len(log[c]) = 4
        /\ ReadsVerifiedSolution(c, 3)
        /\ IsErrorWrite(log[c][4], 5, TextNoQuotesAvailable)

(***************************************************************************)
(* Claims about cleanup and about denied calls (under SpecRL).             *)
(***************************************************************************)
RECURSIVE WithinWindow(_, _, _)
\* The timestamps of ts whose age at time t is at most w, in the order of
\* ts.
WithinWindow(ts, t, w) ==
    IF ts = << >> THEN << >>
    ELSE IF t - Head(ts) <= w
         THEN << Head(ts) >> \o WithinWindow(Tail(ts), t, w)
    ELSE WithinWindow(Tail(ts), t, w)

\* A cleanup pass: the step in which cleanup, holding the lock, scans the
\* map and unlocks.
CleanupPass == mu = CleanupHolder /\ mu' = 0

\* What C27 requires of a cleanup pass.
CleanupPassKeepsRecent ==
    CleanupPass =>
        /\ DOMAIN requests' \subseteq DOMAIN requests
        /\ \A ip \in DOMAIN requests :
               LET kept == WithinWindow(requests[ip], now, window)
               IN  IF kept = << >>
                   THEN ip \notin DOMAIN requests'
                   ELSE /\ ip \in DOMAIN requests'
                        /\ requests'[ip] = kept
        /\ \A ip \in DOMAIN requests' : requests'[ip] # << >>

\* C27: after every cleanup pass each identity left in the map has a
\* non-empty list, the timestamps it had before the pass whose age is at
\* most window, in their order, and every identity whose timestamps had
\* all expired is no longer in the map.
C27_CleanupKeepsRecentOnly == [][CleanupPassKeepsRecent]_vars

\* The admitted calls of the history for this identity.
AdmittedCalls(ip) ==
    { i \in DOMAIN hist : hist[i].ip = ip /\ hist[i].ret }

\* No Allow call was made at the present time, the lock is free, one
\* identity that was admitted is no longer in the map, and another that
\* was admitted twice is left with one timestamp: a cleanup pass has
\* removed the first and shortened the list of the second.
C27_Witness ==
    /\ mu = 0
    /\ \A i \in DOMAIN hist : hist[i].t < now
    /\ \E a \in RLIdentities, b \in DOMAIN requests :
           /\ a # b
           /\ AdmittedCalls(a) # { }
           /\ a \notin DOMAIN requests
           /\ Cardinality(AdmittedCalls(b)) = 2
           /\ Len(requests[b]) = 1

\* An Allow call returns: the step from the filter loop to the Unlock.
AllowReturns(p) == caller[p].pc = "in" /\ caller'[p].pc = "idle"

\* The record of every identity other than the caller's is as it was.
OthersUntouched ==
    \A p \in Callers :
        AllowReturns(p) =>
            \A b \in DOMAIN requests \cup DOMAIN requests' :
                b # caller[p].ip =>
                    /\ b \in DOMAIN requests
                    /\ b \in DOMAIN requests'
                    /\ requests'[b] = requests[b]

RECURSIVE OwnList(_, _)
\* The list of identity ip after the first k calls of the history, had
\* only the calls for ip been made (and no cleanup): an admitted call
\* stores the timestamps within the window and its own time, a denied
\* call stores nothing.
OwnList(ip, k) ==
    IF k = 0 THEN << >>
    ELSE IF hist[k].ip # ip THEN OwnList(ip, k - 1)
    ELSE LET kept == WithinWindow(OwnList(ip, k - 1), hist[k].t, window)
         IN  IF Len(kept) >= maxRequests THEN OwnList(ip, k - 1)
             ELSE Append(kept, hist[k].t)

\* Every call of the history returned what the calls for its own identity
\* alone determine.
OwnOutcome ==
    \A k \in DOMAIN hist :
        hist[k].ret <=>
            Len(WithinWindow(OwnList(hist[k].ip, k - 1), hist[k].t, window))
                < maxRequests

\* C28: an Allow call for one identity leaves the record of every other
\* identity as it was, and the result of every Allow call is the one that
\* the earlier calls for the same identity and their times determine,
\* whatever calls for other identities (and cleanup passes) came between.
C28_IdentitiesIndependent == []OwnOutcome /\ [][OthersUntouched]_vars

\* One identity was admitted and then denied, and the other identity was
\* admitted after that at the same time.
C28_Witness ==
    \E i, j, k \in DOMAIN hist :
        /\ i < j /\ j < k
        /\ hist[i].ip = hist[j].ip
        /\ hist[i].ret
        /\ ~hist[j].ret
        /\ hist[k].ip # hist[j].ip
        /\ hist[k].t = hist[j].t
        /\ hist[k].ret

\* An Allow call returns false: the history gains a denied call.
AllowDenies(p) ==
    /\ AllowReturns(p)
    /\ Len(hist') = Len(hist) + 1
    /\ ~hist'[Len(hist')].ret

\* A denied call changes nothing in the map.
DeniedLeavesMap == \A p \in Callers : AllowDenies(p) => requests' = requests

\* C30: an Allow call that returns false leaves the rate limiter's map as
\* it was: no timestamp is recorded for the denied call and the filtered
\* list is not stored.
C30_DeniedAllowLeavesMap == [][DeniedLeavesMap]_vars

\* The last call of the history was denied after an admitted call for the
\* same identity, and the identity's list holds the admitted calls only.
C30_Witness ==
    /\ Len(hist) >= 2
    /\ ~hist[Len(hist)].ret
    /\ mu = 0
    /\ hist[Len(hist)].ip \in DOMAIN requests
    /\ Len(requests[hist[Len(hist)].ip])
           = Cardinality(AdmittedCalls(hist[Len(hist)].ip))
    /\ \A i \in 1..Len(requests[hist[Len(hist)].ip]) :
           requests[hist[Len(hist)].ip][i] <= hist[Len(hist)].t

(***************************************************************************)
(* Claims about the accept loop (under SpecAccept).                        *)
(***************************************************************************)
\* Accept returns an error: the loop leaves its Accept call and no
\* connection has been taken from the listener.
AcceptFails ==
    acc.pc = "accept" /\ acc'.pc # "accept" /\ backlog' = backlog

\* The loop goes back to its first select after an accept error while
\* shutdownChan is open, and returns only when shutdownChan is closed.
ContinuesAfterAcceptError ==
    /\ (AcceptFails /\ ~shutdown) => acc'.pc = "select"
    /\ (acc.pc # "done" /\ acc'.pc = "done") => shutdown

\* Once shutdownChan is closed the loop starts no call of Accept and takes
\* no connection from the listener, and once it has returned it stays so.
NoAcceptAfterStop ==
    /\ shutdown => ~(acc.pc # "accept" /\ acc'.pc = "accept")
    /\ shutdown => backlog' = backlog
    /\ acc.pc = "done" => acc'.pc = "done"

NonDecreasing(ts) ==
    \A i \in 1..(Len(ts) - 1) : ts[i] <= ts[i + 1]

\* C31: in every state of the rate limiter, whatever Allow calls and
\* cleanup passes have been interleaved, every identity present in the map
\* has a list that is non-empty, holds at most maxRequests timestamps and
\* is in non-decreasing order.
C31_ListsBoundedAndSorted ==
    \A ip \in DOMAIN requests :
        /\ Len(requests[ip]) >= 1
        /\ Len(requests[ip]) <= maxRequests
        /\ NonDecreasing(requests[ip])

\* An identity holds maxRequests = 2 timestamps of different times, while
\* another identity that was admitted has been removed by a cleanup pass.
C31_Witness ==
    /\ maxRequests = 2
    /\ mu = 0
    /\ \E a \in RLIdentities, b \in DOMAIN requests :
           /\ a # b
           /\ AdmittedCalls(a) # { }
           /\ a \notin DOMAIN requests
           /\ Len(requests[b]) = 2
           /\ requests[b][1] < requests[b][2]

(***************************************************************************)
(* Claims about the handler's call of Allow (under Spec).                  *)
(***************************************************************************)
\* The connections for which Allow has been called.
AllowCalledFor == { c \in Conns : admitted[c] # "none" }

\* The admitted calls of the history for this identity whose time is
\* within the window now.
RecentAdmissions(ip) ==
    { i \in AdmittedCalls(ip) : now - hist[i].t <= window }

\* One Allow call per handler that has passed its entry, none for any
\* other connection, none after a frame; every admission within the window
\* is in the identity's list.
AllowOncePerHandler ==
    /\ Len(hist) = Cardinality(AllowCalledFor)
    /\ \A c \in Conns :
           /\ cst[c] \in {"readReq", "readSol", "exit", "closed"} =>
                  c \in AllowCalledFor
           /\ cst[c] \in {"none", "pending", "accepted", "refused", "admit"}
                  => c \notin AllowCalledFor
           /\ c \notin AllowCalledFor => log[c] = << >>
    /\ \A ip \in SrvIdentities :
           Cardinality(RecentAdmissions(ip))
               <= Len(Timestamps0(requests, ip))

\* Allow is called for a connection in the first step of its handler,
\* before any frame, and only a step that calls Allow changes the map or
\* the history.
AllowOnlyAtEntry ==
    /\ \A c \in Conns :
           admitted'[c] # admitted[c] =>
               /\ admitted[c] = "none"
               /\ cst[c] = "admit"
               /\ log[c] = << >>
               /\ Len(hist') = Len(hist) + 1
    /\ (requests' # requests \/ hist' # hist) =>
           \E c \in Conns : admitted'[c] # admitted[c]

\* C32: Allow is called exactly once for every handler, in its first step
\* and before any frame is read or written, and never for a connection
\* closed at the cap; the admission it records stays in the identity's
\* list whatever the exchange comes to: no later step of any handler
\* changes the map.
C32_AllowOncePerHandler == []AllowOncePerHandler /\ [][AllowOnlyAtEntry]_vars

\* A connection that was admitted has been closed after an Error frame
\* and no Quote, and a later connection from the same identity was denied.
C32_Witness ==
    \E c, d \in Conns :
        /\ c # d
        /\ cip[c] = cip[d]
        /\ admitted[c] = "allowed"
        /\ cst[c] = "closed"
        /\ chal[c] # NoChallenge
        /\ WritesOfType(c, MessageTypeError) # { }
        /\ WritesOfType(c, MessageTypeQuote) = { }
        /\ admitted[d] = "denied"

(***************************************************************************)
(* Claims about the read deadline (under SpecDeadline).                    *)
(***************************************************************************)
\* From the first read on, the read deadline is the time the handler
\* started its first read (its entry: the steps before take no time) plus
\* ReadTimeout, and a Solution is accepted no later than that.
ReadDeadlineFromFirstRead ==
    /\ hnd.pc \in {"readReq", "writeChallenge", "readSol"} =>
           hnd.readDeadline = hnd.entry + config.ReadTimeout
    /\ hnd.verified # -1 =>
           hnd.verified <= hnd.entry + config.ReadTimeout

\* A read returns a frame: the handler goes on to a write.
ReadReturnsFrame ==
    ReadPending /\ hnd'.pc \in {"writeChallenge", "sendLast"}

\* The read deadline, once set for the first read, is not set again, and
\* every frame is received by it.
ReadDeadlineNotRenewed ==
    /\ hnd.pc \notin {"none", "admit"} =>
           hnd'.readDeadline = hnd.readDeadline
    /\ ReadReturnsFrame => now <= hnd.entry + config.ReadTimeout

\* C33: the handler sets its read deadline once, before the first read,
\* to ReadTimeout after the start of that read, and never sets it again:
\* the ChallengeRequest and the Solution are both received no later than
\* that, the second read getting no fresh ReadTimeout.
C33_ReadDeadlineSetOnce ==
    []ReadDeadlineFromFirstRead /\ [][ReadDeadlineNotRenewed]_vars

\* A Solution has been accepted exactly at the read deadline, two or more
\* time units after the first read started.
C33_Witness ==
    /\ hnd.pc = "sendLast"
    /\ hnd.verified = hnd.entry + config.ReadTimeout
    /\ config.ReadTimeout >= 2

=============================================================================
